---- MODULE Spec2Model ----
(***************************************************************************)
(* State-machine model of the renderer store of Parade                     *)
(* (src/renderer/store/beadsStore.ts): the issue list mirrored from the    *)
(* external beads tracker, the optimistic status update, the project gate *)
(* of fetchIssues, and the external collaborators the store awaits        *)
(* (beads.list, beads.update, settings.get, settings.set).                 *)
(*                                                                         *)
(* Every store operation runs on the single renderer event loop: an action *)
(* of the model is one run of a handler from its call, or from the         *)
(* settlement of the promise it awaits, to its next await or its return.   *)
(***************************************************************************)
EXTENDS Integers, Sequences, FiniteSets, TLC

VARIABLES
    projects,          \* store: Project[] (id, isActive), in list order
    activeProjectId,   \* store: string | null
    issues,            \* store: Issue[], as a map id -> status
    isLoading,         \* store: boolean
    error,             \* store: string | null
    fetches,           \* every beads.list call issued by fetchIssues, in dispatch order
    updates,           \* every updateIssueStatus call, in call order
    load,              \* the loadProjects call in flight, if any
    switch,            \* the setActiveProject call in flight, if any
    ext,               \* the tracker's data on disk (.beads/), as a map id -> status
    settingsProjects,  \* the 'projects' entry of the settings file
    others,            \* operations started so far, other than fetches and updates,
                       \* and the refetches that calls in flight may still start
    subs,              \* the listeners registered by subscribeToChanges
    selectedEpic,      \* store: Issue | null
    childTasks,        \* store: Issue[], as the set of their ids
    isLoadingChildren, \* store: boolean
    issuesWithDeps,    \* store: TaskWithDeps[], as a map id -> parent, dependencies
    batches,           \* store: Batch[]
    isLoadingBatches,  \* store: boolean
    depFetches,        \* every beads.getAllWithDependencies call, in dispatch order
    childFetches,      \* every beads.list({ parent }) call, in dispatch order
    extDeps,           \* the tracker's tasks on disk, with parent and dependencies
    now,               \* main process: the clock, in ms
    timeoutId,         \* main process: the timer of each debounced sender
    mainWindow,        \* main process: mainWindow is not null
    signals,           \* the change signals of each kind so far
    lastSignal,        \* the time of the last change signal of each kind
    bursts,            \* the bursts of change signals begun, of each kind
    fired,             \* the runs of each debounced sender
    sent,              \* the notifications sent to the renderer, of each kind
    files,             \* the project directory on disk: what each path holds
    beadsProjectPath,  \* main process: settings hold a project path
    startup,           \* main process: how far initializeFileWatchers has run
    migrationResult,   \* main process: what migrateDiscoveryDb returned
    discoveryDbPath,   \* main process: the database path given to the services
    discoveryWatch,    \* file watcher: the file watchDiscovery watches
    creationWatch,     \* file watcher: watchForDiscoveryCreation is registered
    beadsWatch,        \* file watcher: watchBeads is registered
    dbAtInit,          \* the database existed when the watchers were set up
    setupStatus,       \* what checkSetupStatus returned last
    bdInstalled,       \* parade-init: the bd CLI is on the PATH
    installAttempted,  \* parade-init: installer.installBeads was called
    exit,              \* parade-init: how main ended
    results,           \* parade-init: the result createProjectScaffold gave each step
    success,           \* parade-init: the success flag of createProjectScaffold
    createDesign,      \* parade-init: options.createDesign of the last scaffold
    scaffoldRuns,      \* parade-init: the calls of createProjectScaffold so far
    thrown,            \* parade-init: the last scaffoldProject call threw
    collapsedBatches,  \* store: Set<number>, as its members in insertion order
    localStorage       \* what localStorage holds under COLLAPSED_BATCHES_KEY

\* the selection, the dependency view and the change subscription of the store
syncVars == <<subs, selectedEpic, childTasks, isLoadingChildren, issuesWithDeps,
              batches, isLoadingBatches, depFetches, childFetches, extDeps>>

\* the debounced senders of the main process, with the history of their signals
timerVars == <<now, timeoutId, mainWindow, signals, lastSignal, bursts, fired, sent>>

\* the startup of the main process over the project directory
diskVars == <<files, beadsProjectPath, startup, migrationResult, discoveryDbPath,
              discoveryWatch, creationWatch, beadsWatch, dbAtInit, setupStatus>>

\* the parade-init command
cliVars == <<bdInstalled, installAttempted, exit, results, success, createDesign,
             scaffoldRuns, thrown>>

\* the collapsed batches of the store and their copy in localStorage
collapseVars == <<collapsedBatches, localStorage>>

\* the state outside the renderer and the collapsed batches, which no
\* operation on the issues, the projects or the selection writes
outsideVars == <<timerVars, diskVars, cliVars, collapseVars>>

\* what the operations on the issue list and on the projects leave alone
asideVars == <<syncVars, outsideVars>>

vars == <<projects, activeProjectId, issues, isLoading, error, fetches, updates,
          load, switch, ext, settingsProjects, others, asideVars>>

storeVars == <<projects, activeProjectId, issues, isLoading, error>>

envVars == <<ext, settingsProjects, others>>

\* the renderer: the store, its calls in flight and what they read
rendererVars == <<storeVars, fetches, updates, load, switch, envVars, syncVars,
                  collapseVars>>

----------------------------------------------------------------------------
(* Bounds of the model *)

\* operations started in one behaviour: beads.list calls, updateIssueStatus
\* calls, loadProjects calls, setActiveProject calls and changes made outside
\* the application (bd CLI, settings file), taken together
MaxOps == 3

IssueIds == {"bd-1", "bd-2"}
Status == {"open", "in_progress", "closed"}
ProjectIds == {"p1", "p2"}

\* previousIssue?.status of an id that is not in the list
Undefined == "undefined"
\* activeProjectId: null, error: null
Null == "null"

ErrFetch == "Failed to fetch issues"
ErrStale == "Active project not found"
ErrLoad == "Failed to load projects"
ErrSwitch == "Failed to switch project"

----------------------------------------------------------------------------
(* Issue lists.  Ids are unique in the tracker, and no operation of the    *)
(* store depends on the order of the list, so a list is the map from the   *)
(* ids it holds to their status.                                           *)

EmptyList == [i \in {} |-> "open"]

IssueLists == UNION {[D -> Status] : D \in SUBSET IssueIds}

\* get().issues.find((i) => i.id === id)?.status
StatusOf(list, id) == IF id \in DOMAIN list THEN list[id] ELSE Undefined

\* state.issues.map((issue) => issue.id === id ? { ...issue, status } : issue)
MapStatus(list, id, status) ==
    [i \in DOMAIN list |-> IF i = id THEN status ELSE list[i]]

----------------------------------------------------------------------------
(* Project lists: Project[] in list order, each project with its isActive  *)
(* flag.  A project's path is a function of its id.                        *)

Project(id, active) == [id |-> id, isActive |-> active]

ProjectLists ==
    {<<>>}
    \cup {<<Project(p, a)>> : p \in ProjectIds, a \in BOOLEAN}
    \cup {<<Project(p, a), Project(q, b)>> :
            p \in ProjectIds, q \in ProjectIds, a \in BOOLEAN, b \in BOOLEAN}

\* the lists the settings file can hold: distinct projects
SettingsLists ==
    {l \in ProjectLists : Len(l) = 2 => l[1].id # l[2].id /\ ~(l[1].isActive /\ l[2].isActive)}

\* projects.find((p) => p.id === projectId) is defined
HasProject(projs, pid) == \E k \in 1..Len(projs) : projs[k].id = pid

\* projectList.find((p) => p.isActive) ?? projectList[0] ?? null, as an id
ActiveOf(projectList) ==
    IF \E k \in 1..Len(projectList) : projectList[k].isActive
    THEN projectList[CHOOSE k \in 1..Len(projectList) :
                        /\ projectList[k].isActive
                        /\ \A j \in 1..(k - 1) : ~projectList[j].isActive].id
    ELSE IF Len(projectList) > 0 THEN projectList[1].id
    ELSE Null

\* projects.map((p) => ({ ...p, isActive: p.id === projectId }))
MarkActive(projs, pid) ==
    [k \in 1..Len(projs) |-> Project(projs[k].id, projs[k].id = pid)]

----------------------------------------------------------------------------
(* fetchIssues *)

Fetch(silent) == [silent |-> silent, phase |-> "sent", result |-> EmptyList]

\* the fetchIssues calls whose beads.list has not settled in the store
InFlight(k) == fetches[k].phase \in {"sent", "served"}

\* the operations started so far, and the refetches reserved for calls in flight
Started ==
    Len(fetches) + Len(updates) + Len(depFetches) + Len(childFetches) + others

\* the budget of the model has room for one more operation, for two more
CanStart == Started < MaxOps
CanStartTwo == Started + 1 < MaxOps

\* a call of fetchIssues can run: it issues no beads.list call, or the budget
\* has room for one
CanFetch(active, projs) ==
    active = Null \/ ~HasProject(projs, active) \/ CanStart

\* line 168: the list a call leaves when no project is active
IssuesAtNoProject(silent, list) == IF silent THEN list ELSE EmptyList

\* lines 167-170: no project is active
fetchIssuesNoProject(silent) ==
    /\ issues' = IssuesAtNoProject(silent, issues)
    /\ isLoading' = IF silent THEN isLoading ELSE FALSE
    /\ UNCHANGED <<error, fetches>>

\* fetchIssuesStale returning early without recording the error
fetchIssuesStaleUnrecorded ==
    /\ issues' = EmptyList
    /\ isLoading' = FALSE
    /\ UNCHANGED <<error, fetches>>

\* lines 174-181: activeProjectId names no project of the list
fetchIssuesStale ==
    /\ issues' = EmptyList
    /\ isLoading' = FALSE
    /\ error' = ErrStale
    /\ UNCHANGED fetches

\* lines 185-189: up to the await of beads.list(get().filters)
fetchIssuesDispatch(silent) ==
    /\ IF silent
       THEN UNCHANGED <<isLoading, error>>
       ELSE isLoading' = TRUE /\ error' = Null
    /\ fetches' = Append(fetches, Fetch(silent))
    /\ UNCHANGED issues

(* The synchronous part of fetchIssues, from the call to the await of      *)
(* beads.list or to the early return, reading the given activeProjectId    *)
(* and projects.  It constrains issues', isLoading', error' and fetches'.  *)
fetchIssuesSync(silent, active, projs) ==
    IF active = Null THEN fetchIssuesNoProject(silent)
    ELSE IF ~HasProject(projs, active) THEN fetchIssuesStale
    ELSE fetchIssuesDispatch(silent)

\* a call of fetchIssues({ silent }) by a component or by the change listener
fetchIssues(silent) ==
    /\ CanFetch(activeProjectId, projects)
    /\ fetchIssuesSync(silent, activeProjectId, projects)
    /\ UNCHANGED <<projects, activeProjectId, updates, load, switch, envVars>>
    /\ UNCHANGED asideVars

\* the main process runs beads.list: it reads the tracker's data
beadsList(k) ==
    /\ fetches[k].phase = "sent"
    /\ fetches' = [fetches EXCEPT ![k].phase = "served", ![k].result = ext]
    /\ UNCHANGED <<storeVars, updates, load, switch, envVars>>
    /\ UNCHANGED asideVars

\* line 190: beads.list resolved; set({ issues, isLoading: false })
fetchIssuesResolve(k) ==
    /\ fetches[k].phase = "served"
    /\ issues' = fetches[k].result
    /\ isLoading' = FALSE
    /\ fetches' = [fetches EXCEPT ![k].phase = "done"]
    /\ UNCHANGED <<projects, activeProjectId, error, updates, load, switch, envVars>>
    /\ UNCHANGED asideVars

\* lines 191-196: beads.list rejected; set({ error, isLoading: false })
fetchIssuesReject(k) ==
    /\ fetches[k].phase = "sent"
    /\ error' = ErrFetch
    /\ isLoading' = FALSE
    /\ fetches' = [fetches EXCEPT ![k].phase = "failed"]
    /\ UNCHANGED <<projects, activeProjectId, issues, updates, load, switch, envVars>>
    /\ UNCHANGED asideVars

----------------------------------------------------------------------------
(* updateIssueStatus *)

\* the optimistic update left to the resolution of beads.update
OptimisticIssuesDeferred(list, id, status) == list

\* lines 264-268: the optimistic update
OptimisticIssues(list, id, status) == MapStatus(list, id, status)

\* a rollback that restores a snapshot of the whole list: every issue of the
\* list gets the status the call saved
RollbackIssuesWholeList(list, id, previousStatus) ==
    [i \in DOMAIN list |-> previousStatus]

\* a rollback that leaves the optimistic status in the list
RollbackIssuesSkipped(list, id, previousStatus) == list

\* lines 276-280: the rollback to previousStatus
RollbackIssues(list, id, previousStatus) == MapStatus(list, id, previousStatus)

\* lines 258-271: from the call to the await of beads.update(id, { status })
updateIssueStatus(id, status) ==
    /\ IF id \in DOMAIN issues
       THEN CanStart /\ others' = others
       ELSE CanStartTwo /\ others' = others + 1
    /\ issues' = OptimisticIssues(issues, id, status)
    /\ updates' = Append(updates, [id |-> id, status |-> status,
                                   previousStatus |-> StatusOf(issues, id),
                                   phase |-> "pending"])
    /\ UNCHANGED <<projects, activeProjectId, isLoading, error, fetches, load,
                   switch, ext, settingsProjects>>
    /\ UNCHANGED asideVars

\* the refetch the budget holds in reserve for call k: a call made without a
\* rollback snapshot may start one when it fails
Reserved(k) == IF updates[k].previousStatus = Undefined THEN 1 ELSE 0

\* the calls whose beads.update has not settled in the store
Awaiting(k) == updates[k].phase \in {"pending", "failed"}

\* beads.update fails (no such issue, the CLI exits with an error, a timeout)
beadsUpdateFail(k) ==
    /\ updates[k].phase = "pending"
    /\ updates' = [updates EXCEPT ![k].phase = "failed"]
    /\ UNCHANGED <<storeVars, fetches, load, switch, envVars>>
    /\ UNCHANGED asideVars

\* line 272: beads.update wrote the status to the tracker and resolved; the
\* store is left as it is
updateIssueStatusResolve(k) ==
    /\ updates[k].phase = "pending"
    /\ updates[k].id \in DOMAIN ext
    /\ ext' = [ext EXCEPT ![updates[k].id] = updates[k].status]
    /\ updates' = [updates EXCEPT ![k].phase = "resolved"]
    /\ others' = others - Reserved(k)
    /\ UNCHANGED <<storeVars, fetches, load, switch, settingsProjects>>
    /\ UNCHANGED asideVars

\* a failed call without a snapshot that leaves the list as it is
updateIssueStatusRefetchSkipped == UNCHANGED <<issues, isLoading, error, fetches>>

\* line 283: get().fetchIssues(), not awaited
updateIssueStatusRefetch == fetchIssuesSync(FALSE, activeProjectId, projects)

\* a catch that awaits its refetch, which never settles: without a snapshot
\* the call is never rejected
updateIssueStatusRejectAwaitsRefetch(k) ==
    /\ updates[k].phase = "failed"
    /\ updates[k].previousStatus # Undefined
    /\ updates' = [updates EXCEPT ![k].phase = "rejected"]
    /\ issues' = RollbackIssues(issues, updates[k].id, updates[k].previousStatus)
    /\ UNCHANGED <<projects, activeProjectId, isLoading, error, fetches, load,
                   switch, envVars>>
    /\ UNCHANGED asideVars

\* lines 273-286: beads.update rejected; roll back or refetch, then rethrow
updateIssueStatusReject(k) ==
    /\ updates[k].phase = "failed"
    /\ updates' = [updates EXCEPT ![k].phase = "rejected"]
    /\ others' = others - Reserved(k)
    /\ IF updates[k].previousStatus # Undefined
       THEN /\ issues' = RollbackIssues(issues, updates[k].id,
                                        updates[k].previousStatus)
            /\ UNCHANGED <<isLoading, error, fetches>>
       ELSE updateIssueStatusRefetch
    /\ UNCHANGED <<projects, activeProjectId, load, switch, ext, settingsProjects>>
    /\ UNCHANGED asideVars

----------------------------------------------------------------------------
(* The tracker's data changes on disk: the bd CLI, run outside the         *)
(* application, sets the status of an issue, creates one or deletes one.   *)

ExternalChange ==
    /\ CanStart
    /\ others' = others + 1
    /\ \E id \in IssueIds :
          \/ \E st \in Status :
                /\ StatusOf(ext, id) # st
                /\ ext' = [i \in DOMAIN ext \cup {id} |->
                              IF i = id THEN st ELSE ext[i]]
          \/ /\ id \in DOMAIN ext
             /\ ext' = [i \in DOMAIN ext \ {id} |-> ext[i]]
    /\ UNCHANGED <<storeVars, fetches, updates, load, switch, settingsProjects>>
    /\ UNCHANGED asideVars

----------------------------------------------------------------------------
(* loadProjects *)

\* line 86: the call, up to the await of settings.get('all')
loadProjects ==
    /\ load = "idle"
    /\ CanStart
    /\ others' = others + 1
    /\ load' = "get"
    /\ UNCHANGED <<storeVars, fetches, updates, switch, ext, settingsProjects>>
    /\ UNCHANGED asideVars

\* lines 87-100: settings.get resolved with the settings file's project list
loadProjectsGot ==
    /\ load = "get"
    /\ projects' = settingsProjects
    /\ activeProjectId' = ActiveOf(settingsProjects)
    /\ load' = IF ActiveOf(settingsProjects) = Null THEN "idle" ELSE "setPath"
    /\ UNCHANGED <<issues, isLoading, error, fetches, updates, switch, envVars>>
    /\ UNCHANGED asideVars

\* line 102: settings.set('beadsProjectPath') resolved; await get().fetchIssues()
loadProjectsFetch ==
    /\ load = "setPath"
    /\ load' = "idle"
    /\ CanFetch(activeProjectId, projects)
    /\ fetchIssuesSync(FALSE, activeProjectId, projects)
    /\ UNCHANGED <<projects, activeProjectId, updates, switch, envVars>>
    /\ UNCHANGED asideVars

\* lines 104-109: settings.get or settings.set rejected
loadProjectsFail ==
    /\ load \in {"get", "setPath"}
    /\ load' = "idle"
    /\ error' = ErrLoad
    /\ UNCHANGED <<projects, activeProjectId, issues, isLoading, fetches, updates,
                   switch, envVars>>
    /\ UNCHANGED asideVars

----------------------------------------------------------------------------
(* setActiveProject *)

Idle == [pc |-> "idle", projectId |-> Null, projects |-> <<>>]

\* lines 116-119: setActiveProject(null)
setActiveProjectNull ==
    /\ CanStart
    /\ others' = others + 1
    /\ activeProjectId' = Null
    /\ issues' = EmptyList
    /\ error' = Null
    /\ UNCHANGED <<projects, isLoading, fetches, updates, load, switch, ext,
                   settingsProjects>>
    /\ UNCHANGED asideVars

\* lines 122-132: setActiveProject(projectId), up to the first await
setActiveProject(projectId) ==
    /\ switch.pc = "idle"
    /\ CanStart
    /\ others' = others + 1
    /\ IF ~HasProject(projects, projectId)
       THEN UNCHANGED <<storeVars, fetches, updates, load, switch, ext,
                        settingsProjects>>
       ELSE /\ activeProjectId' = projectId
            /\ isLoading' = TRUE
            /\ error' = Null
            /\ switch' = [pc |-> "setPath", projectId |-> projectId,
                          projects |-> projects]
            /\ UNCHANGED <<projects, issues, fetches, updates, load, ext,
                           settingsProjects>>
    /\ UNCHANGED asideVars

\* lines 135-139: settings.set('beadsProjectPath') resolved; the flags are
\* recomputed from the list read at the call, and settings.set('projects') awaited
setActiveProjectPathSet ==
    /\ switch.pc = "setPath"
    /\ switch' = [switch EXCEPT !.pc = "setProjects",
                                !.projects = MarkActive(switch.projects,
                                                        switch.projectId)]
    /\ UNCHANGED <<storeVars, fetches, updates, load, envVars>>
    /\ UNCHANGED asideVars

\* lines 139-144: settings.set('projects') wrote the settings file and resolved;
\* set({ projects: updatedProjects }); await get().fetchIssues()
setActiveProjectFetch ==
    /\ switch.pc = "setProjects"
    /\ settingsProjects' = switch.projects
    /\ projects' = switch.projects
    /\ switch' = Idle
    /\ CanFetch(activeProjectId, switch.projects)
    /\ fetchIssuesSync(FALSE, activeProjectId, switch.projects)
    /\ UNCHANGED <<activeProjectId, updates, load, ext, others>>
    /\ UNCHANGED asideVars

\* lines 145-151: either settings.set rejected
setActiveProjectFail ==
    /\ switch.pc \in {"setPath", "setProjects"}
    /\ switch' = Idle
    /\ error' = ErrSwitch
    /\ isLoading' = FALSE
    /\ UNCHANGED <<projects, activeProjectId, issues, fetches, updates, load,
                   envVars>>
    /\ UNCHANGED asideVars

(* The project list of the settings file is edited outside this store (the *)
(* project settings of the application add, remove and reorder projects).  *)
SettingsChange ==
    /\ CanStart
    /\ others' = others + 1
    /\ settingsProjects' \in SettingsLists \ {settingsProjects}
    /\ UNCHANGED <<storeVars, fetches, updates, load, switch, ext>>
    /\ UNCHANGED asideVars

----------------------------------------------------------------------------
(* The dependency view.  A TaskWithDeps is a task with its parent epic and *)
(* the tasks it depends on; a list of them is the map from the ids it      *)
(* holds.  selectEpic takes an Issue, of which the store reads the id and  *)
(* the issue_type.                                                         *)

TaskIds == {"bd-3", "bd-4"}

Issue(id, type) == [id |-> id, issue_type |-> type]

\* the issues a component can select
Roots == {Issue("bd-1", "epic"), Issue("bd-2", "epic"), Issue("bd-3", "task")}

\* selectedEpic: null
NoEpic == Issue(Null, Null)

TaskWithDeps(parent, dependsOn) == [parent |-> parent, dependsOn |-> dependsOn]

\* issuesWithDeps: []
NoTasks == [t \in {} |-> TaskWithDeps("bd-1", {})]

\* one task under each epic
DepsSplit ==
    [t \in TaskIds |-> IF t = "bd-3" THEN TaskWithDeps("bd-1", {})
                                     ELSE TaskWithDeps("bd-2", {})]

\* both tasks under bd-1, the second depending on the first
DepsChain ==
    [t \in TaskIds |-> IF t = "bd-3" THEN TaskWithDeps("bd-1", {})
                                     ELSE TaskWithDeps("bd-1", {"bd-3"})]

\* the task data the tracker holds in this model
DepsLists == {NoTasks, DepsSplit, DepsChain}

\* the tasks of the list whose parent is epicId
ChildrenOf(list, epicId) == {t \in DOMAIN list : list[t].parent = epicId}

(* computeBatches(issuesWithDeps, epicId): the tasks under the epic, in     *)
(* layers; a layer holds the tasks whose dependencies are all in earlier    *)
(* layers, and tasks on a cycle end in one last layer.                      *)
RECURSIVE Layers(_, _)
Layers(list, remaining) ==
    IF remaining = {} THEN <<>>
    ELSE LET ready == {t \in remaining : list[t].dependsOn \cap remaining = {}}
         IN  IF ready = {} THEN <<remaining>>
             ELSE <<ready>> \o Layers(list, remaining \ ready)

computeBatches(list, epicId) == Layers(list, ChildrenOf(list, epicId))

\* the values batches can take
BatchLists ==
    {<<>>} \cup {computeBatches(l, r.id) : l \in DepsLists, r \in Roots}

----------------------------------------------------------------------------
(* fetchChildTasks, selectEpic, clearSelection *)

\* lines 243-246: up to the await of beads.list({ parent: epicId })
fetchChildTasksSync(epicId) ==
    /\ CanStart
    /\ isLoadingChildren' = TRUE
    /\ childFetches' = Append(childFetches,
                              [epicId |-> epicId, phase |-> "sent", result |-> {}])

\* the main process runs beads.list({ parent }): it reads the tracker's data
beadsListChildren(k) ==
    /\ childFetches[k].phase = "sent"
    /\ childFetches' = [childFetches EXCEPT
                           ![k].phase = "served",
                           ![k].result = ChildrenOf(extDeps, childFetches[k].epicId)]
    /\ UNCHANGED <<storeVars, fetches, updates, load, switch, envVars>>
    /\ UNCHANGED <<subs, selectedEpic, childTasks, isLoadingChildren, issuesWithDeps,
                   batches, isLoadingBatches, depFetches, extDeps>>
    /\ UNCHANGED outsideVars

\* line 247: set({ childTasks: result, isLoadingChildren: false })
fetchChildTasksResolve(k) ==
    /\ childFetches[k].phase = "served"
    /\ childTasks' = childFetches[k].result
    /\ isLoadingChildren' = FALSE
    /\ childFetches' = [childFetches EXCEPT ![k].phase = "done"]
    /\ UNCHANGED <<storeVars, fetches, updates, load, switch, envVars>>
    /\ UNCHANGED <<subs, selectedEpic, issuesWithDeps, batches, isLoadingBatches,
                   depFetches, extDeps>>
    /\ UNCHANGED outsideVars

\* lines 248-251: beads.list rejected; set({ isLoadingChildren: false })
fetchChildTasksReject(k) ==
    /\ childFetches[k].phase = "sent"
    /\ isLoadingChildren' = FALSE
    /\ childFetches' = [childFetches EXCEPT ![k].phase = "failed"]
    /\ UNCHANGED <<storeVars, fetches, updates, load, switch, envVars>>
    /\ UNCHANGED <<subs, selectedEpic, childTasks, issuesWithDeps, batches,
                   isLoadingBatches, depFetches, extDeps>>
    /\ UNCHANGED outsideVars

\* a selectEpic that fetches the children of whatever it is given
selectEpicFetchesAny(epic) ==
    /\ selectedEpic' = epic
    /\ childTasks' = {}
    /\ IF epic # NoEpic
       THEN fetchChildTasksSync(epic.id)
       ELSE UNCHANGED <<isLoadingChildren, childFetches>>
    /\ UNCHANGED <<storeVars, fetches, updates, load, switch, envVars>>
    /\ UNCHANGED <<subs, issuesWithDeps, batches, isLoadingBatches, depFetches,
                   extDeps>>
    /\ UNCHANGED outsideVars

\* lines 235-241: selectEpic(epic)
selectEpic(epic) ==
    /\ selectedEpic' = epic
    /\ childTasks' = {}
    /\ IF epic # NoEpic /\ epic.issue_type = "epic"
       THEN fetchChildTasksSync(epic.id)
       ELSE UNCHANGED <<isLoadingChildren, childFetches>>
    /\ UNCHANGED <<storeVars, fetches, updates, load, switch, envVars>>
    /\ UNCHANGED <<subs, issuesWithDeps, batches, isLoadingBatches, depFetches,
                   extDeps>>
    /\ UNCHANGED outsideVars

\* lines 254-256: clearSelection(); selectedIssueId is not part of this model
clearSelection ==
    /\ selectedEpic' = NoEpic
    /\ childTasks' = {}
    /\ UNCHANGED <<storeVars, fetches, updates, load, switch, envVars>>
    /\ UNCHANGED <<subs, isLoadingChildren, issuesWithDeps, batches,
                   isLoadingBatches, depFetches, childFetches, extDeps>>
    /\ UNCHANGED outsideVars

----------------------------------------------------------------------------
(* fetchIssuesWithDeps, computeBatchesForEpic *)

\* no callback is chained on the promise of fetchIssuesWithDeps
NoThen == Null

(* The batches after the callback chained on the promise of                *)
(* fetchIssuesWithDeps has run: line 359 calls computeBatchesForEpic with  *)
(* the id read at line 351.  The callback runs as a microtask of the turn  *)
(* that settles the promise, so no other handler runs between the two.     *)
ThenBatches(thenId, list, old) ==
    IF thenId = NoThen THEN old ELSE computeBatches(list, thenId)

\* lines 203-206: no project is active; the promise resolves at once
fetchIssuesWithDepsNoProject(silent, thenId) ==
    /\ issuesWithDeps' = IF silent THEN issuesWithDeps ELSE NoTasks
    /\ isLoadingBatches' = IF silent THEN isLoadingBatches ELSE FALSE
    /\ batches' = ThenBatches(thenId, issuesWithDeps', batches)
    /\ UNCHANGED depFetches

\* lines 208-211: activeProjectId names no project; the promise resolves at once
fetchIssuesWithDepsStale(thenId) ==
    /\ batches' = ThenBatches(thenId, issuesWithDeps, batches)
    /\ UNCHANGED <<issuesWithDeps, isLoadingBatches, depFetches>>

\* lines 214-218: up to the await of beads.getAllWithDependencies()
fetchIssuesWithDepsDispatch(silent, thenId) ==
    /\ isLoadingBatches' = IF silent THEN isLoadingBatches ELSE TRUE
    /\ depFetches' = Append(depFetches, [silent |-> silent, phase |-> "sent",
                                         result |-> NoTasks, then |-> thenId])
    /\ UNCHANGED <<issuesWithDeps, batches>>

(* The synchronous part of fetchIssuesWithDeps, with the callback its      *)
(* caller chains on its promise.  It constrains issuesWithDeps',           *)
(* isLoadingBatches', batches' and depFetches'.                            *)
fetchIssuesWithDepsSync(silent, thenId) ==
    IF activeProjectId = Null THEN fetchIssuesWithDepsNoProject(silent, thenId)
    ELSE IF ~HasProject(projects, activeProjectId) THEN fetchIssuesWithDepsStale(thenId)
    ELSE fetchIssuesWithDepsDispatch(silent, thenId)

\* a call of fetchIssuesWithDeps({ silent }) by a component
fetchIssuesWithDeps(silent) ==
    /\ CanFetch(activeProjectId, projects)
    /\ fetchIssuesWithDepsSync(silent, NoThen)
    /\ UNCHANGED <<storeVars, fetches, updates, load, switch, envVars>>
    /\ UNCHANGED <<subs, selectedEpic, childTasks, isLoadingChildren, childFetches,
                   extDeps>>
    /\ UNCHANGED outsideVars

\* the main process runs beads.getAllWithDependencies: it reads the tracker's data
getAllWithDependencies(k) ==
    /\ depFetches[k].phase = "sent"
    /\ depFetches' = [depFetches EXCEPT ![k].phase = "served", ![k].result = extDeps]
    /\ UNCHANGED <<storeVars, fetches, updates, load, switch, envVars>>
    /\ UNCHANGED <<subs, selectedEpic, childTasks, isLoadingChildren, issuesWithDeps,
                   batches, isLoadingBatches, childFetches, extDeps>>
    /\ UNCHANGED outsideVars

\* line 219: set({ issuesWithDeps, isLoadingBatches: false }); then the callback
fetchIssuesWithDepsResolve(k) ==
    /\ depFetches[k].phase = "served"
    /\ issuesWithDeps' = depFetches[k].result
    /\ isLoadingBatches' = FALSE
    /\ batches' = ThenBatches(depFetches[k].then, issuesWithDeps', batches)
    /\ depFetches' = [depFetches EXCEPT ![k].phase = "done"]
    /\ UNCHANGED <<storeVars, fetches, updates, load, switch, envVars>>
    /\ UNCHANGED <<subs, selectedEpic, childTasks, isLoadingChildren, childFetches,
                   extDeps>>
    /\ UNCHANGED outsideVars

\* a failure that leaves the loading flag of the batches as it is
FlagAfterDepsFailureKept(flag) == flag

\* line 222: set({ isLoadingBatches: false })
FlagAfterDepsFailure(flag) == FALSE

\* lines 220-223: the call rejected; the failure is logged and the promise
\* resolves; then the callback
fetchIssuesWithDepsReject(k) ==
    /\ depFetches[k].phase = "sent"
    /\ isLoadingBatches' = FlagAfterDepsFailure(isLoadingBatches)
    /\ batches' = ThenBatches(depFetches[k].then, issuesWithDeps, batches)
    /\ depFetches' = [depFetches EXCEPT ![k].phase = "failed"]
    /\ UNCHANGED <<storeVars, fetches, updates, load, switch, envVars>>
    /\ UNCHANGED <<subs, selectedEpic, childTasks, isLoadingChildren, issuesWithDeps,
                   childFetches, extDeps>>
    /\ UNCHANGED outsideVars

\* lines 303-307: computeBatchesForEpic(epicId), called by a component
computeBatchesForEpic(epicId) ==
    /\ batches' = computeBatches(issuesWithDeps, epicId)
    /\ UNCHANGED <<storeVars, fetches, updates, load, switch, envVars>>
    /\ UNCHANGED <<subs, selectedEpic, childTasks, isLoadingChildren, issuesWithDeps,
                   isLoadingBatches, depFetches, childFetches, extDeps>>
    /\ UNCHANGED outsideVars

\* the bd CLI, run outside the application, changes tasks or their dependencies
ExternalDepsChange ==
    /\ CanStart
    /\ others' = others + 1
    /\ extDeps' \in DepsLists \ {extDeps}
    /\ UNCHANGED <<storeVars, fetches, updates, load, switch, ext, settingsProjects>>
    /\ UNCHANGED <<subs, selectedEpic, childTasks, isLoadingChildren, issuesWithDeps,
                   batches, isLoadingBatches, depFetches, childFetches>>
    /\ UNCHANGED outsideVars

----------------------------------------------------------------------------
(* toggleBatchCollapse, loadCollapsedBatches, saveCollapsedBatches.  A Set *)
(* iterates in insertion order, so collapsedBatches is the sequence of its *)
(* members in that order; localStorage holds a string or nothing.          *)

\* the highest batch number of the model
MaxBatch == 3

BatchNumbers == 1..MaxBatch

\* the members of a Set
Members(collapsed) == {collapsed[i] : i \in DOMAIN collapsed}

\* localStorage.getItem returns null: nothing was stored under the key
NoItem == [kind |-> "null", text |-> <<>>]

\* a stored string that is the JSON text of an object, not of an array
ObjectItem == [kind |-> "object", text |-> <<>>]

\* a stored string that is no JSON text
InvalidItem == [kind |-> "invalid", text |-> <<>>]

\* line 340: JSON.stringify([...collapsedBatches]), the text of an array with
\* the numeral of each member
JSONstringify(collapsed) ==
    [kind |-> "array",
     text |-> [i \in DOMAIN collapsed |-> ToString(collapsed[i])]]

\* the number a numeral of the text stands for
NumberOf(numeral) == CHOOSE n \in BatchNumbers : ToString(n) = numeral

\* line 327: JSON.parse(stored), for the text of an array
JSONparse(item) == [i \in DOMAIN item.text |-> NumberOf(item.text[i])]

\* line 329: new Set(parsed), which keeps the first of equal elements
RECURSIVE NewSet(_)
NewSet(parsed) ==
    IF parsed = <<>> THEN <<>>
    ELSE LET front == NewSet(SubSeq(parsed, 1, Len(parsed) - 1))
             last  == parsed[Len(parsed)]
         IN  IF last \in Members(front) THEN front ELSE Append(front, last)

\* a toggle that only ever adds the batch
ToggledAdded(collapsed, batchNumber) ==
    IF batchNumber \in Members(collapsed) THEN collapsed
    ELSE Append(collapsed, batchNumber)

\* lines 311-316: delete the batch if the Set has it, add it otherwise
Toggled(collapsed, batchNumber) ==
    IF batchNumber \in Members(collapsed)
    THEN SelectSeq(collapsed, LAMBDA n : n # batchNumber)
    ELSE Append(collapsed, batchNumber)

\* lines 338-343: localStorage.setItem stores the text, or throws (the quota
\* is exceeded, storage is disabled) and the catch block logs the error
Saved(stored, collapsed, stores) ==
    IF stores THEN JSONstringify(collapsed) ELSE stored

\* lines 324-334: the Set after loadCollapsedBatches; it is replaced only if
\* an array is stored, and a text that does not parse is logged
Loaded(stored, collapsed) ==
    IF stored.kind = "array" THEN NewSet(JSONparse(stored)) ELSE collapsed

\* lines 309-321: toggleBatchCollapse(batchNumber), with the save it ends in
toggleBatchCollapse(batchNumber) ==
    /\ collapsedBatches' = Toggled(collapsedBatches, batchNumber)
    /\ \E stores \in BOOLEAN :
          localStorage' = Saved(localStorage, collapsedBatches', stores)
    /\ UNCHANGED <<storeVars, fetches, updates, load, switch, envVars, syncVars>>
    /\ UNCHANGED <<timerVars, diskVars, cliVars>>

\* lines 323-335: loadCollapsedBatches()
loadCollapsedBatches ==
    /\ collapsedBatches' = Loaded(localStorage, collapsedBatches)
    /\ UNCHANGED localStorage
    /\ UNCHANGED <<storeVars, fetches, updates, load, switch, envVars, syncVars>>
    /\ UNCHANGED <<timerVars, diskVars, cliVars>>

\* lines 337-344: saveCollapsedBatches()
saveCollapsedBatches ==
    /\ \E stores \in BOOLEAN :
          localStorage' = Saved(localStorage, collapsedBatches, stores)
    /\ UNCHANGED collapsedBatches
    /\ UNCHANGED <<storeVars, fetches, updates, load, switch, envVars, syncVars>>
    /\ UNCHANGED <<timerVars, diskVars, cliVars>>

\* the sequences of distinct batch numbers
RECURSIVE Arrangements(_)
Arrangements(numbers) ==
    IF numbers = {} THEN {<<>>}
    ELSE UNION {{Append(s, n) : s \in Arrangements(numbers \ {n})} : n \in numbers}

\* what localStorage can hold when the store is constructed: nothing, what an
\* earlier session saved, or a string that something else stored
StoredItems ==
    {NoItem, ObjectItem, InvalidItem}
        \cup {JSONstringify(s) : s \in UNION {Arrangements(m) : m \in SUBSET BatchNumbers}}

CollapseNext ==
    \/ \E batchNumber \in BatchNumbers : toggleBatchCollapse(batchNumber)
    \/ loadCollapsedBatches
    \/ saveCollapsedBatches

----------------------------------------------------------------------------
(* subscribeToChanges.  window.electron.events.onBeadsChange registers the *)
(* listener for the beads-changed notifications of the main process and    *)
(* returns the function that removes it.                                   *)

SubIds == {"s1", "s2"}

\* events.onBeadsChange(listener): the listener is registered
Registered(registry, s) == [registry EXCEPT ![s] = "on"]

\* a removal that puts back a listener already removed
UnregisteredToggling(registry, s) ==
    [registry EXCEPT ![s] = IF registry[s] = "on" THEN "off" ELSE "on"]

\* the function onBeadsChange returned: the listener is removed
Unregistered(registry, s) == [registry EXCEPT ![s] = "off"]

\* lines 347-364: subscribeToChanges(); the call returns unsubscribe
subscribeToChanges(s) ==
    /\ subs[s] = "unused"
    /\ subs' = Registered(subs, s)
    /\ UNCHANGED <<storeVars, fetches, updates, load, switch, envVars>>
    /\ UNCHANGED <<selectedEpic, childTasks, isLoadingChildren, issuesWithDeps,
                   batches, isLoadingBatches, depFetches, childFetches, extDeps>>
    /\ UNCHANGED outsideVars

\* a call of the function subscribeToChanges returned, the first or a later one
unsubscribe(s) ==
    /\ subs[s] # "unused"
    /\ subs' = Unregistered(subs, s)
    /\ UNCHANGED <<storeVars, fetches, updates, load, switch, envVars>>
    /\ UNCHANGED <<selectedEpic, childTasks, isLoadingChildren, issuesWithDeps,
                   batches, isLoadingBatches, depFetches, childFetches, extDeps>>
    /\ UNCHANGED outsideVars

\* a listener that refreshes with the loading overlay
ListenerFetchLoud == fetchIssuesSync(FALSE, activeProjectId, projects)

\* line 353: fetchIssues({ silent: true })
ListenerFetch == fetchIssuesSync(TRUE, activeProjectId, projects)

\* lines 357-360: the callback chained on fetchIssuesWithDeps recomputes the
\* batches of the epic read at line 351, when the event arrived
ListenerThen(epic) == epic.id

\* the budget has room for the calls a change event makes
CanRefresh ==
    \/ activeProjectId = Null
    \/ ~HasProject(projects, activeProjectId)
    \/ IF selectedEpic = NoEpic THEN CanStart ELSE CanStartTwo

\* lines 348-362: a beads-changed notification is delivered to listener s
onBeadsChange(s) ==
    /\ subs[s] = "on"
    /\ CanRefresh
    /\ ListenerFetch
    /\ IF selectedEpic # NoEpic
       THEN fetchIssuesWithDepsSync(TRUE, ListenerThen(selectedEpic))
       ELSE UNCHANGED <<issuesWithDeps, batches, isLoadingBatches, depFetches>>
    /\ UNCHANGED <<projects, activeProjectId, updates, load, switch, envVars>>
    /\ UNCHANGED <<subs, selectedEpic, childTasks, isLoadingChildren, childFetches,
                   extDeps>>
    /\ UNCHANGED outsideVars

\* a discovery-changed notification is delivered to the renderer: the store has
\* registered no listener for it
onDiscoveryChange ==
    /\ CanStart
    /\ others' = others + 1
    /\ UNCHANGED <<storeVars, fetches, updates, load, switch, ext, settingsProjects>>
    /\ UNCHANGED syncVars
    /\ UNCHANGED outsideVars

----------------------------------------------------------------------------
(* The main process: the debounced senders of the change notifications.    *)
(* Time is counted in ms and advances in steps of TickMs; a timer runs its *)
(* callback at the instant it is due.                                      *)

\* the two debounced senders: sendDiscoveryChange, sendBeadsChange
Kinds == {"discovery", "beads"}

\* lines 31-37: the delay given to debounce, in ms
IpcDebounceMs == 300

\* the resolution of the clock: a sixth of the delay
TickMs == IpcDebounceMs \div 6

\* the ticks of the clock in one behaviour
MaxTicks == 14

\* line 23: let timeoutId = null
NoTimer == [armed |-> FALSE, at |-> 0]

\* a debounce that keeps the timer it has already started
RestartedTimerKept(timer, time, ms) ==
    IF timer.armed THEN timer ELSE [armed |-> TRUE, at |-> time + ms]

\* lines 25-26: clearTimeout(timeoutId); timeoutId = setTimeout(fn, ms)
RestartedTimer(timer, time, ms) == [armed |-> TRUE, at |-> time + ms]

\* the notifications sent after the callback of a sender has run: lines 32
\* and 36, mainWindow?.webContents.send(...)
SentAfter(count, window) == IF window THEN count + 1 ELSE count

\* the clock advances; every timer that is due has run
Tick ==
    /\ now + TickMs <= MaxTicks * TickMs
    /\ \A kind \in Kinds : timeoutId[kind].armed => timeoutId[kind].at > now
    /\ now' = now + TickMs
    /\ UNCHANGED <<timeoutId, mainWindow, signals, lastSignal, bursts, fired, sent>>
    /\ UNCHANGED <<storeVars, fetches, updates, load, switch, envVars, syncVars>>
    /\ UNCHANGED <<diskVars, cliVars, collapseVars>>

\* a watcher whose two senders share one timeoutId: a signal of one kind
\* clears the timer of the other
changeSharedTimer(kind) ==
    /\ signals[kind] = 0 \/ lastSignal[kind] < now
    /\ signals' = [signals EXCEPT ![kind] = @ + 1]
    /\ timeoutId' = [k \in Kinds |->
                        IF k = kind
                        THEN RestartedTimer(timeoutId[kind], now, IpcDebounceMs)
                        ELSE NoTimer]
    /\ lastSignal' = [lastSignal EXCEPT ![kind] = now]
    /\ bursts' = [bursts EXCEPT
                     ![kind] = IF timeoutId[kind].armed THEN @ ELSE @ + 1]
    /\ UNCHANGED <<now, mainWindow, fired, sent>>
    /\ UNCHANGED <<storeVars, fetches, updates, load, switch, envVars, syncVars>>
    /\ UNCHANGED <<diskVars, cliVars, collapseVars>>

\* lines 137-143: the file watcher emits 'change' for a kind and the debounced
\* sender of that kind is called (lines 24-27); two signals of a kind in the
\* same ms are one signal to this clock
change(kind) ==
    /\ signals[kind] = 0 \/ lastSignal[kind] < now
    /\ signals' = [signals EXCEPT ![kind] = @ + 1]
    /\ timeoutId' = [timeoutId EXCEPT
                        ![kind] = RestartedTimer(timeoutId[kind], now, IpcDebounceMs)]
    /\ lastSignal' = [lastSignal EXCEPT ![kind] = now]
    /\ bursts' = [bursts EXCEPT
                     ![kind] = IF timeoutId[kind].armed THEN @ ELSE @ + 1]
    /\ UNCHANGED <<now, mainWindow, fired, sent>>
    /\ UNCHANGED <<storeVars, fetches, updates, load, switch, envVars, syncVars>>
    /\ UNCHANGED <<diskVars, cliVars, collapseVars>>

\* line 26: the timer of a sender is due and runs fn, which sends the
\* notification if the window exists (lines 31-37); the handle in timeoutId
\* is then that of a timer that has run, which clearTimeout ignores
timerFires(kind) ==
    /\ timeoutId[kind].armed
    /\ timeoutId[kind].at = now
    /\ timeoutId' = [timeoutId EXCEPT ![kind] = NoTimer]
    /\ fired' = [fired EXCEPT ![kind] = @ + 1]
    /\ sent' = [sent EXCEPT ![kind] = SentAfter(@, mainWindow)]
    /\ UNCHANGED <<now, mainWindow, signals, lastSignal, bursts>>
    /\ UNCHANGED <<storeVars, fetches, updates, load, switch, envVars, syncVars>>
    /\ UNCHANGED <<diskVars, cliVars, collapseVars>>

\* lines 150-182: createWindow(), when the application is ready or activated
createWindow ==
    /\ ~mainWindow
    /\ mainWindow' = TRUE
    /\ UNCHANGED <<now, timeoutId, signals, lastSignal, bursts, fired, sent>>
    /\ UNCHANGED <<storeVars, fetches, updates, load, switch, envVars, syncVars>>
    /\ UNCHANGED <<diskVars, cliVars, collapseVars>>

\* lines 179-181: the window is closed; mainWindow = null
windowClosed ==
    /\ mainWindow
    /\ mainWindow' = FALSE
    /\ UNCHANGED <<now, timeoutId, signals, lastSignal, bursts, fired, sent>>
    /\ UNCHANGED <<storeVars, fetches, updates, load, switch, envVars, syncVars>>
    /\ UNCHANGED <<diskVars, cliVars, collapseVars>>

\* lines 17, 23: the main process as loaded, with no window and no timer
TimerInit ==
    /\ now = 0
    /\ timeoutId = [kind \in Kinds |-> NoTimer]
    /\ mainWindow = FALSE
    /\ signals = [kind \in Kinds |-> 0]
    /\ lastSignal = [kind \in Kinds |-> 0]
    /\ bursts = [kind \in Kinds |-> 0]
    /\ fired = [kind \in Kinds |-> 0]
    /\ sent = [kind \in Kinds |-> 0]

TimerNext ==
    \/ Tick
    \/ \E kind \in Kinds : change(kind)
    \/ \E kind \in Kinds : timerFires(kind)
    \/ createWindow
    \/ windowClosed

----------------------------------------------------------------------------
(* The project directory.  files maps each path to what it holds: nothing, *)
(* a directory, or a file with the mark of who wrote it.                   *)

ProjectDir == "."
ProjectYaml == "project.yaml"
LegacyDb == "discovery.db"
ParadeDir == ".parade"
NewDb == ".parade/discovery.db"
ParadeReadme == ".parade/README.md"
ClaudeDir == ".claude"
BeadsDir == ".beads"
DesignDir == ".design"

\* migration.ts line 68: the companion files of the database
walFiles == {"discovery.db-shm", "discovery.db-wal"}

\* path.join(dir, file)
Join(dir, file) == IF dir = ProjectDir THEN file ELSE dir \o "/" \o file

\* index.js line 174: the subdirectories of .claude
ClaudeSubdirs == {Join(ClaudeDir, sub) : sub \in {"skills", "agents", "templates"}}

\* index.js lines 273-275: the placeholder files of .design
DesignFiles == {Join(DesignDir, f) : f \in {"Colors.md", "Typography.md", "Components.md"}}

DbFiles == {LegacyDb} \cup walFiles

Paths ==
    {ProjectDir, ProjectYaml, ParadeDir, ParadeReadme, ClaudeDir, BeadsDir, DesignDir}
        \cup DbFiles \cup {Join(ParadeDir, f) : f \in DbFiles}
        \cup ClaudeSubdirs \cup DesignFiles

Absent == "absent"
Dir == "dir"
\* a file written at the project root, a file written inside a directory of the
\* project by its user or by another tool, a file written by parade-init
FromRoot == "written at root"
FromUser == "written in place"
FromInit == "written by parade-init"

Contents == {Absent, Dir, FromRoot, FromUser, FromInit}

\* fs.existsSync(path)
existsSync(fs, path) == fs[path] # Absent

\* a project directory that holds nothing
EmptyProject == [path \in Paths |-> IF path = ProjectDir THEN Dir ELSE Absent]

----------------------------------------------------------------------------
(* migrateDiscoveryDb (migration.ts lines 39-93).  The function body has   *)
(* no await: it runs in one step.  Each call of mkdirSync and renameSync   *)
(* either succeeds or throws.                                              *)

NoError == "none"
\* err.message of a failed filesystem call
FsError == "EACCES"

\* lines 48, 54: { migrated: false }
NotMigrated == [migrated |-> FALSE, error |-> NoError]
\* lines 79-83: { migrated: true, from, to }
Migrated == [migrated |-> TRUE, error |-> NoError]
\* lines 88-91: { migrated: false, error }
MigrationFailed == [migrated |-> FALSE, error |-> FsError]

Mkdir(path) == [op |-> "mkdir", from |-> path, to |-> path]
Write(path) == [op |-> "write", from |-> path, to |-> path]
Rename(from, to) == [op |-> "rename", from |-> from, to |-> to]

\* fs.mkdirSync(path, { recursive: true }), fs.renameSync(from, to) and, in
\* parade-init, fs.writeFile(path, content), when they succeed
Apply(fs, o) ==
    IF o.op = "mkdir" THEN [fs EXCEPT ![o.to] = Dir]
    ELSE IF o.op = "write" THEN [fs EXCEPT ![o.to] = FromInit]
    ELSE [fs EXCEPT ![o.to] = fs[o.from], ![o.from] = Absent]

\* a migration that moves the database and leaves its companion files
MigrationOpsDbOnly(fs) ==
    (IF existsSync(fs, ParadeDir) THEN <<>> ELSE <<Mkdir(ParadeDir)>>)
        \o <<Rename(LegacyDb, NewDb)>>

\* lines 57-77: the filesystem calls of a migration, in the order of the code
MigrationOps(fs) ==
    (IF existsSync(fs, ParadeDir) THEN <<>> ELSE <<Mkdir(ParadeDir)>>)
        \o <<Rename(LegacyDb, NewDb)>>
        \o (IF existsSync(fs, "discovery.db-shm")
            THEN <<Rename("discovery.db-shm", Join(ParadeDir, "discovery.db-shm"))>>
            ELSE <<>>)
        \o (IF existsSync(fs, "discovery.db-wal")
            THEN <<Rename("discovery.db-wal", Join(ParadeDir, "discovery.db-wal"))>>
            ELSE <<>>)

\* the directory after the first n calls of ops have succeeded
RECURSIVE ApplyOps(_, _, _)
ApplyOps(fs, ops, n) ==
    IF n = 0 THEN fs ELSE Apply(ApplyOps(fs, ops, n - 1), ops[n])

\* a migration that does not look at the new location first
NeedsMigrationUnchecked(fs) == existsSync(fs, LegacyDb)

\* lines 46-55: the two early returns are not taken
NeedsMigration(fs) == ~existsSync(fs, NewDb) /\ existsSync(fs, LegacyDb)

\* a catch block that rethrows: initializeFileWatchers ends at its await
AfterMigrationRethrown(result) ==
    IF result.error # NoError THEN "failed" ELSE "migrated"

\* lines 84-92 and part_005 lines 73-78: the failure is returned, not thrown,
\* and initializeFileWatchers goes on
AfterMigration(result) == "migrated"

\* part_005 lines 70-73 with migration.ts lines 39-93: the filesystem calls
\* succeed up to the n-th, and the next one, if there is one, throws
migrateDiscoveryDb ==
    /\ startup = "launched"
    /\ beadsProjectPath
    /\ IF NeedsMigration(files)
       THEN \E n \in 0..Len(MigrationOps(files)) :
               /\ files' = ApplyOps(files, MigrationOps(files), n)
               /\ migrationResult' = IF n = Len(MigrationOps(files))
                                     THEN Migrated ELSE MigrationFailed
       ELSE /\ files' = files
            /\ migrationResult' = NotMigrated
    /\ startup' = AfterMigration(migrationResult')
    /\ UNCHANGED <<beadsProjectPath, discoveryDbPath, discoveryWatch, creationWatch,
                   beadsWatch, dbAtInit, setupStatus>>
    /\ UNCHANGED <<rendererVars, timerVars, cliVars>>

----------------------------------------------------------------------------
(* initializeFileWatchers (part_005 lines 69-131) *)

NoPath == "no path"

\* a getDiscoveryDbPath that prefers the legacy location
getDiscoveryDbPathLegacyFirst(fs) ==
    IF existsSync(fs, LegacyDb) THEN LegacyDb ELSE NewDb

\* lines 45-64: getDiscoveryDbPath(projectPath)
getDiscoveryDbPath(fs) ==
    IF existsSync(fs, NewDb) THEN NewDb
    ELSE IF existsSync(fs, LegacyDb) THEN LegacyDb
    ELSE NewDb

\* lines 80-127: after the await of migrateDiscoveryDb
initializeFileWatchers ==
    /\ startup = "migrated"
    /\ discoveryDbPath' = getDiscoveryDbPath(files)
    /\ dbAtInit' = existsSync(files, discoveryDbPath')
    /\ IF existsSync(files, discoveryDbPath')
       THEN discoveryWatch' = discoveryDbPath' /\ creationWatch' = creationWatch
       ELSE IF existsSync(files, ParadeDir)
            THEN discoveryWatch' = discoveryWatch /\ creationWatch' = TRUE
            ELSE discoveryWatch' = discoveryWatch /\ creationWatch' = creationWatch
    /\ beadsWatch' = TRUE
    /\ startup' = "ready"
    /\ UNCHANGED <<files, beadsProjectPath, migrationResult, setupStatus>>
    /\ UNCHANGED <<rendererVars, timerVars, cliVars>>

\* lines 70-71, 128-130: no project path is configured
initializeFileWatchersNoProject ==
    /\ startup = "launched"
    /\ ~beadsProjectPath
    /\ startup' = "ready"
    /\ UNCHANGED <<files, beadsProjectPath, migrationResult, discoveryDbPath,
                   discoveryWatch, creationWatch, beadsWatch, dbAtInit, setupStatus>>
    /\ UNCHANGED <<rendererVars, timerVars, cliVars>>

\* line 116: the callback calls the debounced sendDiscoveryChange (lines 24-27)
sendDebounced(kind) ==
    /\ signals' = [signals EXCEPT ![kind] = @ + 1]
    /\ timeoutId' = [timeoutId EXCEPT
                        ![kind] = RestartedTimer(timeoutId[kind], now, IpcDebounceMs)]
    /\ lastSignal' = [lastSignal EXCEPT ![kind] = now]
    /\ bursts' = [bursts EXCEPT
                     ![kind] = IF timeoutId[kind].armed THEN @ ELSE @ + 1]
    /\ UNCHANGED <<now, mainWindow, fired, sent>>

\* lines 106-117: the watch on .parade/ has seen discovery.db appear in that
\* directory and runs the callback, once
discoveryCreated ==
    /\ creationWatch
    /\ existsSync(files, NewDb)
    /\ discoveryDbPath' = NewDb
    /\ discoveryWatch' = NewDb
    /\ creationWatch' = FALSE
    /\ sendDebounced("discovery")
    /\ UNCHANGED <<files, beadsProjectPath, startup, migrationResult, beadsWatch,
                   dbAtInit, setupStatus>>
    /\ UNCHANGED <<rendererVars, cliVars>>

\* another process creates .parade/ or a discovery database
ExternalCreate ==
    /\ \E path \in {ParadeDir, NewDb, LegacyDb} :
          /\ ~existsSync(files, path)
          /\ path = NewDb => existsSync(files, ParadeDir)
          /\ files' = [files EXCEPT
                          ![path] = IF path = ParadeDir THEN Dir
                                    ELSE IF path = NewDb THEN FromUser
                                    ELSE FromRoot]
    /\ UNCHANGED <<beadsProjectPath, startup, migrationResult, discoveryDbPath,
                   discoveryWatch, creationWatch, beadsWatch, dbAtInit, setupStatus>>
    /\ UNCHANGED <<rendererVars, timerVars, cliVars>>

\* the layouts of the database files: any of the three at the root, and any
\* of the three in .parade/ if that directory exists
DbLayouts ==
    {[path \in Paths |->
         IF path = ProjectDir THEN Dir
         ELSE IF path \in atRoot THEN FromRoot
         ELSE IF path = ParadeDir /\ hasDir THEN Dir
         ELSE IF path \in {Join(ParadeDir, f) : f \in inDir} THEN FromUser
         ELSE Absent] :
     <<atRoot, hasDir, inDir>> \in
         {l \in (SUBSET DbFiles) \X BOOLEAN \X (SUBSET DbFiles) :
              ~l[2] => l[3] = {}}}

NoStatus == "none"

\* the main process as launched, over an empty project directory
DiskInit ==
    /\ files = EmptyProject
    /\ beadsProjectPath = TRUE
    /\ startup = "launched"
    /\ migrationResult = NotMigrated
    /\ discoveryDbPath = NoPath
    /\ discoveryWatch = NoPath
    /\ creationWatch = FALSE
    /\ beadsWatch = FALSE
    /\ dbAtInit = FALSE
    /\ setupStatus = NoStatus

----------------------------------------------------------------------------
(* checkSetupStatus (migration.ts lines 135-249) *)

\* lines 148-166: the components given to determineStatus
Components(fs) ==
    [hasProjectYaml |-> existsSync(fs, ProjectYaml),
     hasClaudeDir |-> existsSync(fs, ClaudeDir),
     hasBeadsDir |-> existsSync(fs, BeadsDir),
     hasDiscoveryDb |-> existsSync(fs, NewDb) \/ existsSync(fs, LegacyDb)]

\* a determineStatus without the partial setup cases of lines 237-245
determineStatusStrict(c) ==
    IF ~c.hasProjectYaml /\ ~c.hasClaudeDir /\ ~c.hasBeadsDir THEN "not-started"
    ELSE IF c.hasClaudeDir /\ c.hasBeadsDir /\ ~c.hasProjectYaml THEN "scaffolded"
    ELSE IF c.hasProjectYaml /\ c.hasClaudeDir /\ c.hasBeadsDir /\ c.hasDiscoveryDb
         THEN "ready"
    ELSE IF c.hasProjectYaml /\ c.hasClaudeDir /\ c.hasBeadsDir THEN "configured"
    ELSE "not-started"

\* lines 209-249: determineStatus(components)
determineStatus(c) ==
    IF ~c.hasProjectYaml /\ ~c.hasClaudeDir /\ ~c.hasBeadsDir THEN "not-started"
    ELSE IF c.hasClaudeDir /\ c.hasBeadsDir /\ ~c.hasProjectYaml THEN "scaffolded"
    ELSE IF c.hasProjectYaml /\ c.hasClaudeDir /\ c.hasBeadsDir /\ c.hasDiscoveryDb
         THEN "ready"
    ELSE IF c.hasProjectYaml /\ c.hasClaudeDir /\ c.hasBeadsDir THEN "configured"
    ELSE IF c.hasProjectYaml THEN "configured"
    ELSE IF c.hasClaudeDir \/ c.hasBeadsDir THEN "scaffolded"
    ELSE "not-started"

\* lines 135-182: checkSetupStatus(projectPath); the status of its result
checkSetupStatus ==
    /\ setupStatus' = IF ~beadsProjectPath \/ ~existsSync(files, ProjectDir)
                      THEN "not-started"
                      ELSE determineStatus(Components(files))
    /\ UNCHANGED <<files, beadsProjectPath, startup, migrationResult, discoveryDbPath,
                   discoveryWatch, creationWatch, beadsWatch, dbAtInit>>
    /\ UNCHANGED <<rendererVars, timerVars, cliVars>>

\* what checkSetupStatus looks for
SetupPaths == {ProjectYaml, ClaudeDir, BeadsDir, ParadeDir, NewDb, LegacyDb}

\* the project directories checkSetupStatus can be given: a path that does
\* not exist, or a directory with any of the components
SetupLayouts ==
    {[path \in Paths |-> Absent]} \cup
    {[path \in Paths |->
         IF path \in {ProjectDir, ClaudeDir, BeadsDir, ParadeDir} \cap (present \cup {ProjectDir})
         THEN Dir
         ELSE IF path \in present THEN (IF path = LegacyDb THEN FromRoot ELSE FromUser)
         ELSE Absent] :
     present \in {s \in SUBSET SetupPaths : NewDb \in s => ParadeDir \in s}}

StatusNext == checkSetupStatus

----------------------------------------------------------------------------
(* parade-init (packages/parade-init/lib/index.js).  A call of the         *)
(* filesystem or of the bd CLI either succeeds or throws.                  *)

\* lines 296-358: the steps of createProjectScaffold, in order
ScaffoldSteps == <<ParadeDir, ClaudeDir, BeadsDir, DesignDir>>

\* how many scaffolds run in one behaviour
MaxRuns == 2

\* lines 134-145: createParadeDir
ParadeOps == <<Mkdir(ParadeDir), Write(ParadeReadme)>>

\* lines 171-177: createClaudeDir
ClaudeOps ==
    <<Mkdir(ClaudeDir), Mkdir(Join(ClaudeDir, "skills")),
      Mkdir(Join(ClaudeDir, "agents")), Mkdir(Join(ClaudeDir, "templates"))>>

\* lines 215-218: bd init, which creates .beads/
BeadsOps == <<Mkdir(BeadsDir)>>

\* lines 255-275: createDesignDir
DesignOps ==
    <<Mkdir(DesignDir), Write(Join(DesignDir, "Colors.md")),
      Write(Join(DesignDir, "Typography.md")), Write(Join(DesignDir, "Components.md"))>>

\* a step that never finds its directory in place
StepSkipsNever(fs, dir) == FALSE

\* lines 128, 164, 196, 249: fs.access(path) succeeds
StepSkips(fs, dir) == existsSync(fs, dir)

\* one step: skipped if the directory exists, else its calls run up to the
\* n-th and the step has created the directory if none of them threw
ScaffoldStep(fs, dir, ops, n) ==
    IF StepSkips(fs, dir)
    THEN [fs |-> fs, result |-> "skipped"]
    ELSE [fs |-> ApplyOps(fs, ops, n),
          result |-> IF n = Len(ops) THEN "created" ELSE "error"]

\* how many calls of a step can succeed before one throws; a step that does
\* not run makes none
Outcomes(runs, fs, dir, ops) ==
    IF runs /\ ~StepSkips(fs, dir) THEN 0..Len(ops) ELSE {0}

\* a flag that a failure of any step, .beads/ included, makes false
allSuccessfulAllSteps(parade, claude, beads, design) ==
    "error" \notin {parade, claude, beads, design}

\* lines 294, 307, 321, 358: allSuccessful, which the catch blocks of the
\* .parade, .claude and .design steps set to false; a failure of the .beads
\* step leaves it alone (lines 335-339)
allSuccessful(parade, claude, beads, design) ==
    "error" \notin {parade, claude, design}

\* lines 290-363: createProjectScaffold(projectPath, { createDesign: wanted });
\* without bd on the PATH initializeBeads returns an error (lines 203-212)
createProjectScaffold(wanted) ==
    /\ scaffoldRuns < MaxRuns
    /\ \E n1 \in Outcomes(TRUE, files, ParadeDir, ParadeOps),
          n2 \in Outcomes(TRUE, files, ClaudeDir, ClaudeOps),
          n3 \in Outcomes(bdInstalled, files, BeadsDir, BeadsOps),
          n4 \in Outcomes(wanted, files, DesignDir, DesignOps) :
          LET s1 == ScaffoldStep(files, ParadeDir, ParadeOps, n1)
              s2 == ScaffoldStep(s1.fs, ClaudeDir, ClaudeOps, n2)
              s3 == ScaffoldStep(s2.fs, BeadsDir, BeadsOps, n3)
              s4 == IF wanted
                    THEN ScaffoldStep(s3.fs, DesignDir, DesignOps, n4)
                    ELSE [fs |-> s3.fs, result |-> "skipped"]
          IN  /\ files' = s4.fs
              /\ results' = <<s1.result, s2.result, s3.result, s4.result>>
              /\ success' = allSuccessful(s1.result, s2.result, s3.result, s4.result)
    /\ createDesign' = wanted
    /\ scaffoldRuns' = scaffoldRuns + 1
    /\ UNCHANGED <<bdInstalled, installAttempted, exit>>
    /\ UNCHANGED <<beadsProjectPath, startup, migrationResult, discoveryDbPath,
                   discoveryWatch, creationWatch, beadsWatch, dbAtInit, setupStatus>>
    /\ UNCHANGED <<rendererVars, timerVars>>

\* lines 61-68: scaffoldProject(projectPath, { createDesign: wanted }) awaits
\* createProjectScaffold and throws if the success flag of its result is false
scaffoldProject(wanted) ==
    /\ createProjectScaffold(wanted)
    /\ thrown' = ~success'

\* lines 33-52 with the installer's installBeads: bd is already installed, or
\* it is downloaded and installed, or the download or the installation throws
installBeads ==
    /\ ~installAttempted
    /\ installAttempted' = TRUE
    /\ bdInstalled' \in IF bdInstalled THEN {TRUE} ELSE BOOLEAN
    /\ UNCHANGED <<exit, results, success, createDesign, scaffoldRuns, thrown>>
    /\ UNCHANGED diskVars
    /\ UNCHANGED <<rendererVars, timerVars>>

\* lines 75-96: main(), and the entry point's process.exit(0) when it resolves
main ==
    /\ exit = "not run"
    /\ exit' = "ok"
    /\ UNCHANGED <<bdInstalled, installAttempted, results, success, createDesign,
                   scaffoldRuns, thrown>>
    /\ UNCHANGED diskVars
    /\ UNCHANGED <<rendererVars, timerVars>>

\* a project directory before parade-init: each of the four directories is
\* missing, empty, or in place with what its user put there
ScaffoldLayouts ==
    {[path \in Paths |->
         IF path = ProjectDir THEN Dir
         ELSE IF path \in {ParadeDir, ClaudeDir, BeadsDir, DesignDir}
              THEN (IF path \in empty \cup full THEN Dir ELSE Absent)
         ELSE IF path \in ClaudeSubdirs
              THEN (IF ClaudeDir \in full THEN Dir ELSE Absent)
         ELSE IF path = ParadeReadme
              THEN (IF ParadeDir \in full THEN FromUser ELSE Absent)
         ELSE IF path \in DesignFiles
              THEN (IF DesignDir \in full THEN FromUser ELSE Absent)
         ELSE Absent] :
     <<empty, full>> \in
         {l \in (SUBSET {ParadeDir, ClaudeDir, BeadsDir, DesignDir})
                    \X (SUBSET {ParadeDir, ClaudeDir, DesignDir}) :
              l[1] \cap l[2] = {}}}

\* parade-init before it is run
CliInit ==
    /\ bdInstalled = FALSE
    /\ installAttempted = FALSE
    /\ exit = "not run"
    /\ results = <<>>
    /\ success = FALSE
    /\ createDesign = FALSE
    /\ scaffoldRuns = 0
    /\ thrown = FALSE

CliNext ==
    \/ main
    \/ installBeads
    \/ \E wanted \in BOOLEAN : scaffoldProject(wanted)

MainNext ==
    \/ migrateDiscoveryDb
    \/ initializeFileWatchers
    \/ initializeFileWatchersNoProject
    \/ discoveryCreated
    \/ ExternalCreate

----------------------------------------------------------------------------
(* Specifications *)

TypeOK ==
    /\ projects \in ProjectLists
    /\ activeProjectId \in ProjectIds \cup {Null}
    /\ issues \in IssueLists
    /\ isLoading \in BOOLEAN
    /\ error \in {Null, ErrFetch, ErrStale, ErrLoad, ErrSwitch}
    /\ ext \in IssueLists
    /\ settingsProjects \in SettingsLists
    /\ load \in {"idle", "get", "setPath"}
    /\ switch.pc \in {"idle", "setPath", "setProjects"}
    /\ Started <= MaxOps
    /\ subs \in [SubIds -> {"unused", "on", "off"}]
    /\ selectedEpic \in Roots \cup {NoEpic}
    /\ childTasks \in SUBSET TaskIds
    /\ issuesWithDeps \in DepsLists
    /\ batches \in BatchLists
    /\ extDeps \in DepsLists

\* the tracker's data when the application starts
ExtInit == [i \in IssueIds |-> "open"]

FetchNext ==
    \/ \E silent \in BOOLEAN : fetchIssues(silent)
    \/ \E k \in 1..Len(fetches) : beadsList(k)
    \/ \E k \in 1..Len(fetches) : fetchIssuesResolve(k)
    \/ \E k \in 1..Len(fetches) : fetchIssuesReject(k)

UpdateNext ==
    \/ \E id \in IssueIds, status \in Status : updateIssueStatus(id, status)
    \/ \E k \in 1..Len(updates) : beadsUpdateFail(k)
    \/ \E k \in 1..Len(updates) : updateIssueStatusResolve(k)
    \/ \E k \in 1..Len(updates) : updateIssueStatusReject(k)

ProjectNext ==
    \/ loadProjects
    \/ loadProjectsGot
    \/ loadProjectsFetch
    \/ loadProjectsFail
    \/ setActiveProjectNull
    \/ \E projectId \in ProjectIds : setActiveProject(projectId)
    \/ setActiveProjectPathSet
    \/ setActiveProjectFetch
    \/ setActiveProjectFail
    \/ SettingsChange

\* line 78: collapsedBatches: new Set<number>(), with nothing stored yet
CollapseInit ==
    /\ collapsedBatches = <<>>
    /\ localStorage = NoItem

\* lines 66-79: the store as constructed, with no listener registered
SyncInit ==
    /\ subs = [s \in SubIds |-> "unused"]
    /\ selectedEpic = NoEpic
    /\ childTasks = {}
    /\ isLoadingChildren = FALSE
    /\ issuesWithDeps = NoTasks
    /\ batches = <<>>
    /\ isLoadingBatches = FALSE
    /\ depFetches = <<>>
    /\ childFetches = <<>>
    /\ extDeps = DepsSplit

SyncNext ==
    \/ \E s \in SubIds : subscribeToChanges(s)
    \/ \E s \in SubIds : unsubscribe(s)
    \/ \E s \in SubIds : onBeadsChange(s)
    \/ onDiscoveryChange
    \/ \E epic \in Roots \cup {NoEpic} : selectEpic(epic)
    \/ clearSelection
    \/ \E silent \in BOOLEAN : fetchIssuesWithDeps(silent)
    \/ \E k \in 1..Len(depFetches) : getAllWithDependencies(k)
    \/ \E k \in 1..Len(depFetches) : fetchIssuesWithDepsResolve(k)
    \/ \E k \in 1..Len(depFetches) : fetchIssuesWithDepsReject(k)
    \/ \E epic \in Roots : computeBatchesForEpic(epic.id)
    \/ ExternalDepsChange

\* the settlement of the child fetches selectEpic starts
ChildNext ==
    \/ \E k \in 1..Len(childFetches) : beadsListChildren(k)
    \/ \E k \in 1..Len(childFetches) : fetchChildTasksResolve(k)
    \/ \E k \in 1..Len(childFetches) : fetchChildTasksReject(k)

(* The store after loadProjects and its fetch have run over a settings     *)
(* file that holds one project: that project is active and the list is the *)
(* tracker's.                                                              *)
Init ==
    /\ projects = <<Project("p1", TRUE)>>
    /\ activeProjectId = "p1"
    /\ settingsProjects = <<Project("p1", TRUE)>>
    /\ ext = ExtInit
    /\ issues = ext
    /\ isLoading = FALSE
    /\ error = Null
    /\ fetches = <<>>
    /\ updates = <<>>
    /\ load = "idle"
    /\ switch = Idle
    /\ others = 0
    /\ SyncInit
    /\ CollapseInit
    /\ TimerInit
    /\ DiskInit
    /\ CliInit

Next == FetchNext \/ UpdateNext \/ ProjectNext \/ ExternalChange

Spec == Init /\ [][Next]_vars

(* The change subscription and the dependency view, over one project: the  *)
(* operations of SyncNext and setActiveProject(null).  The fetches of the  *)
(* issue list and of the child tasks that these operations start are       *)
(* dispatched and left in flight: their settlement is part of Next and of  *)
(* ChildNext.                                                              *)
NextSync == SyncNext \/ setActiveProjectNull

SpecSync == Init /\ [][NextSync]_vars

(* The selection with its child fetches: selectEpic, clearSelection, the   *)
(* settlement of the beads.list({ parent }) calls and the changes made to  *)
(* the tracker outside the application.                                    *)
NextSelect ==
    \/ \E epic \in Roots \cup {NoEpic} : selectEpic(epic)
    \/ clearSelection
    \/ ChildNext
    \/ ExternalDepsChange

SpecSelect == Init /\ [][NextSelect]_vars

(* The collapsed batches: the store is constructed over whatever an earlier *)
(* session left in localStorage.                                           *)
InitCollapse ==
    /\ projects = <<Project("p1", TRUE)>>
    /\ activeProjectId = "p1"
    /\ settingsProjects = <<Project("p1", TRUE)>>
    /\ ext = ExtInit
    /\ issues = ext
    /\ isLoading = FALSE
    /\ error = Null
    /\ fetches = <<>>
    /\ updates = <<>>
    /\ load = "idle"
    /\ switch = Idle
    /\ others = 0
    /\ SyncInit
    /\ TimerInit
    /\ DiskInit
    /\ CliInit
    /\ collapsedBatches = <<>>
    /\ localStorage \in StoredItems

SpecCollapse == InitCollapse /\ [][CollapseNext]_vars

\* the renderer as loaded and the debounced senders idle
RendererInit ==
    /\ projects = <<Project("p1", TRUE)>>
    /\ activeProjectId = "p1"
    /\ settingsProjects = <<Project("p1", TRUE)>>
    /\ ext = ExtInit
    /\ issues = ext
    /\ isLoading = FALSE
    /\ error = Null
    /\ fetches = <<>>
    /\ updates = <<>>
    /\ load = "idle"
    /\ switch = Idle
    /\ others = 0
    /\ SyncInit
    /\ CollapseInit
    /\ TimerInit

\* the main process is launched over any layout of the database files, with
\* or without a project path in its settings
InitMain ==
    /\ RendererInit
    /\ CliInit
    /\ files \in DbLayouts
    /\ beadsProjectPath \in BOOLEAN
    /\ startup = "launched"
    /\ migrationResult = NotMigrated
    /\ discoveryDbPath = NoPath
    /\ discoveryWatch = NoPath
    /\ creationWatch = FALSE
    /\ beadsWatch = FALSE
    /\ dbAtInit = FALSE
    /\ setupStatus = NoStatus

\* parade-init is run in any project directory, with or without bd installed
InitCli ==
    /\ RendererInit
    /\ files \in ScaffoldLayouts
    /\ beadsProjectPath = TRUE
    /\ startup = "launched"
    /\ migrationResult = NotMigrated
    /\ discoveryDbPath = NoPath
    /\ discoveryWatch = NoPath
    /\ creationWatch = FALSE
    /\ beadsWatch = FALSE
    /\ dbAtInit = FALSE
    /\ setupStatus = NoStatus
    /\ bdInstalled \in BOOLEAN
    /\ installAttempted = FALSE
    /\ exit = "not run"
    /\ results = <<>>
    /\ success = FALSE
    /\ createDesign = FALSE
    /\ scaffoldRuns = 0
    /\ thrown = FALSE

SpecCli == InitCli /\ [][CliNext]_vars

\* checkSetupStatus is given any project directory, or no path
InitStatus ==
    /\ RendererInit
    /\ CliInit
    /\ files \in SetupLayouts
    /\ beadsProjectPath \in BOOLEAN
    /\ startup = "launched"
    /\ migrationResult = NotMigrated
    /\ discoveryDbPath = NoPath
    /\ discoveryWatch = NoPath
    /\ creationWatch = FALSE
    /\ beadsWatch = FALSE
    /\ dbAtInit = FALSE
    /\ setupStatus = NoStatus

SpecStatus == InitStatus /\ [][StatusNext]_vars

(* The startup of the main process.  The event loop runs the continuation  *)
(* of the await in initializeFileWatchers, and the file watcher reports    *)
(* the creation of a file in a directory it watches.                       *)
SpecMain ==
    /\ InitMain
    /\ [][MainNext]_vars
    /\ WF_vars(migrateDiscoveryDb)
    /\ WF_vars(initializeFileWatchers)
    /\ WF_vars(initializeFileWatchersNoProject)
    /\ WF_vars(discoveryCreated)

(* The main process alone: the renderer's store stays as constructed and   *)
(* loaded.                                                                 *)
SpecDebounce == Init /\ [][TimerNext]_vars

\* the tracker holds one issue; bd-2 is not in the list
ExtOne == [i \in {"bd-1"} |-> "open"]

\* the store after loadProjects and its fetch, over that tracker
InitUpdate ==
    /\ projects = <<Project("p1", TRUE)>>
    /\ activeProjectId = "p1"
    /\ settingsProjects = <<Project("p1", TRUE)>>
    /\ ext = ExtOne
    /\ issues = ext
    /\ isLoading = FALSE
    /\ error = Null
    /\ fetches = <<>>
    /\ updates = <<>>
    /\ load = "idle"
    /\ switch = Idle
    /\ others = 0
    /\ SyncInit
    /\ CollapseInit
    /\ TimerInit
    /\ DiskInit
    /\ CliInit

(* The status updates with the refetches they start: updateIssueStatus,    *)
(* the settlement of beads.update and of the beads.list calls issued by    *)
(* the failed updates, the changes made outside the application and        *)
(* setActiveProject(null).  No other caller of fetchIssues runs.           *)
NextUpdate ==
    \/ UpdateNext
    \/ \E k \in 1..Len(fetches) : beadsList(k)
    \/ \E k \in 1..Len(fetches) : fetchIssuesResolve(k)
    \/ \E k \in 1..Len(fetches) : fetchIssuesReject(k)
    \/ ExternalChange
    \/ setActiveProjectNull

\* the catch handler of call k runs
HandlesRejection(k) == k \in 1..Len(updates) /\ updateIssueStatusReject(k)

(* The event loop runs the continuation of every settled promise: once     *)
(* beads.update has rejected, the catch block of the call runs.            *)
SpecUpdate ==
    /\ InitUpdate
    /\ [][NextUpdate]_vars
    /\ \A k \in 1..MaxOps : WF_vars(HandlesRejection(k))

----------------------------------------------------------------------------
(* Steps of the store, recognised by what they do to the two call logs *)

\* updateIssueStatus was called: its beads.update call is issued in this step
CallsUpdate == Len(updates') = Len(updates) + 1

\* the handler of call k runs on the rejection of its beads.update
SettlesFailed(k) == updates[k].phase = "failed" /\ updates'[k].phase # "failed"

\* call k resolves
SettlesResolved(k) == updates[k].phase = "pending" /\ updates'[k].phase = "resolved"

\* fetch k commits the list it fetched
Commits(k) == fetches[k].phase = "served" /\ fetches'[k].phase = "done"

\* a step of a silent fetchIssues: the call, or the settlement of its beads.list
SilentFetchStep ==
    \/ fetchIssues(TRUE)
    \/ \E k \in 1..Len(fetches) :
          /\ fetches[k].silent
          /\ fetchIssuesResolve(k) \/ fetchIssuesReject(k)

\* activeProjectId names a project that is not in the list
Stale(active, projs) == active # Null /\ ~HasProject(projs, active)

\* a step that runs fetchIssues with a stale project reference: a call of its
\* own, or the call made by loadProjects (line 102), by setActiveProject (line
\* 144, after set({ projects })) or by a failed updateIssueStatus (line 283)
StaleFetchStep ==
    \/ Stale(activeProjectId, projects) /\ \E silent \in BOOLEAN : fetchIssues(silent)
    \/ Stale(activeProjectId, projects) /\ loadProjectsFetch
    \/ Stale(activeProjectId, projects') /\ setActiveProjectFetch
    \/ /\ Stale(activeProjectId, projects)
       /\ \E k \in 1..Len(updates) :
             updates[k].previousStatus = Undefined /\ updateIssueStatusReject(k)

----------------------------------------------------------------------------
(* Claims *)

\* C1: for an id of the issue list, the step of updateIssueStatus(id, s) that
\* issues beads.update leaves the store reading s for id, so the store reads s
\* at the moment the external call is issued and before it can settle.
C1_OptimisticBeforeExternalCall ==
    [][CallsUpdate =>
          LET u == updates'[Len(updates')]
          IN  /\ u.phase = "pending"
              /\ u.id \in DOMAIN issues => StatusOf(issues', u.id) = u.status]_vars

\* C1 witness: a call is awaiting beads.update for an id that was in the list
\* with another status, and the store reads the requested status.
C1_Witness ==
    \E k \in 1..Len(updates) :
        /\ updates[k].phase = "pending"
        /\ updates[k].previousStatus \notin {Undefined, updates[k].status}
        /\ StatusOf(issues, updates[k].id) = updates[k].status

C3_SilentFetchKeepsPendingEdit ==
    [][\A f \in 1..Len(fetches) :
          Commits(f) /\ fetches[f].silent =>
              \A k \in 1..Len(updates) :
                  updates[k].phase = "pending" =>
                      StatusOf(issues', updates[k].id)
                          = StatusOf(issues, updates[k].id)]_vars

\* C4: when a fetchIssues resolves after a later-dispatched one has resolved,
\* the issue list the store then holds is the result of the later-dispatched call.
C4_LaterDispatchWins ==
    [][\A f \in 1..Len(fetches), g \in 1..Len(fetches) :
          (f < g /\ Commits(f) /\ fetches[g].phase = "done")
              => issues' = fetches[g].result]_vars

\* C5: when two updateIssueStatus calls for the same id are awaiting beads.update,
\* the rollback snapshot of the second is the snapshot of the first, the status
\* id had before the first optimistic mutation.
C5_SecondSnapshotIsPreEdit ==
    \A j \in 1..Len(updates), k \in 1..Len(updates) :
        (j < k /\ updates[j].id = updates[k].id
               /\ updates[j].phase = "pending" /\ updates[k].phase = "pending"
               /\ fetches = <<>> /\ others = 0)
            => updates[k].previousStatus = updates[j].previousStatus

\* C6: when the only updateIssueStatus(id, s) resolves, with nothing else run
\* meanwhile than silent refreshes, the store's status for id is s.
C6_ResolvedReadsRequested ==
    [][\A k \in 1..Len(updates) :
          (/\ SettlesResolved(k)
           /\ Len(updates) = 1 /\ others = 0
           /\ updates[k].previousStatus # Undefined
           /\ \A f \in 1..Len(fetches) : fetches[f].silent)
              => StatusOf(issues', updates[k].id) = updates[k].status]_vars

\* C7: no step of a silent fetchIssues changes isLoading.
C7_SilentKeepsLoading == [][SilentFetchStep => isLoading' = isLoading]_vars

\* C8: no step of a silent fetchIssues changes the error field.
C8_SilentKeepsError == [][SilentFetchStep => error' = error]_vars

\* C9: when no project is active, a call of fetchIssues, silent or not, issues
\* no beads.list call, leaves the issue list empty and leaves the error as it is.
C9_NoProjectNoFetch ==
    /\ [](activeProjectId = Null =>
            \A silent \in BOOLEAN : IssuesAtNoProject(silent, issues) = EmptyList)
    /\ [][\A silent \in BOOLEAN :
             (activeProjectId = Null /\ fetchIssues(silent)) =>
                 fetches' = fetches /\ error' = error]_vars

\* C10: when activeProjectId names no project of the list, a run of fetchIssues
\* issues no beads.list call, leaves the issue list empty, records an error and
\* leaves isLoading false.
C10_StaleProjectFails ==
    [][StaleFetchStep =>
          /\ fetches' = fetches
          /\ issues' = EmptyList
          /\ error' # Null
          /\ isLoading' = FALSE]_vars

\* C10 witness: the active project is not in the list, and fetchIssues has run
\* there: its error is recorded, the list is empty and isLoading is false.
C10_Witness ==
    /\ Stale(activeProjectId, projects)
    /\ error = ErrStale
    /\ issues = EmptyList
    /\ ~isLoading

----------------------------------------------------------------------------
(* Steps of the change subscription and of the dependency view *)

\* a change notification of either kind is delivered while a listener of the
\* store is registered
ChangeDelivered ==
    /\ \E s \in SubIds : subs[s] = "on"
    /\ onDiscoveryChange \/ \E s \in SubIds : onBeadsChange(s)

\* the step has the effect of a call of fetchIssues({ silent: true })
SilentFetchCalled == fetchIssuesSync(TRUE, activeProjectId, projects)

\* the promise of dependency fetch k settles, by success or by failure
DepsSettles(k) ==
    /\ depFetches[k].phase \in {"sent", "served"}
    /\ depFetches'[k].phase \in {"done", "failed"}

\* the external call of dependency fetch k fails
DepsFails(k) == depFetches[k].phase = "sent" /\ depFetches'[k].phase = "failed"

\* a dependency refresh is in flight
DepsInFlight == \E k \in 1..Len(depFetches) : depFetches[k].phase \in {"sent", "served"}

\* C11 as claimed: while the store is subscribed, every delivered change event,
\* discovery-changed or beads-changed, triggers a fetchIssues with silent = true.
C11_EitherKindRefreshes == [][ChangeDelivered => SilentFetchCalled]_vars

\* C11 as amended: every beads-changed event delivered to a listener of the
\* store triggers a fetchIssues with silent = true, and only a registered
\* listener receives one; a discovery-changed event changes nothing in the store.
C11_BeadsChangeRefreshes ==
    /\ [][\A s \in SubIds :
             onBeadsChange(s) => subs[s] = "on" /\ SilentFetchCalled]_vars
    /\ [][onDiscoveryChange =>
             UNCHANGED <<storeVars, fetches, updates, syncVars>>]_vars

\* C11 witness: a listener is registered and the silent fetch its event
\* started is awaiting beads.list, with isLoading left false.
C11_Witness ==
    /\ \E s \in SubIds : subs[s] = "on"
    /\ \E k \in 1..Len(fetches) : fetches[k].silent /\ fetches[k].phase = "sent"
    /\ ~isLoading

\* C12: when a dependency fetch started by a change event settles, the batches
\* are recomputed for the root selected at that moment, and are left alone if
\* the selection was cleared; they are never computed for a root selected before.
C12_RecomputeForCurrentRoot ==
    [][\A k \in 1..Len(depFetches) :
          (DepsSettles(k) /\ depFetches[k].then # NoThen) =>
              batches' = IF selectedEpic = NoEpic THEN batches
                         ELSE computeBatches(issuesWithDeps', selectedEpic.id)]_vars

\* C13: whenever a root is selected and no dependency refresh is in flight,
\* batches is computeBatches of the store's issuesWithDeps and the selected root.
C13_BatchesDerived ==
    (selectedEpic # NoEpic /\ ~DepsInFlight)
        => batches = computeBatches(issuesWithDeps, selectedEpic.id)

\* C14: a call of unsubscribe after the first changes nothing; a listener once
\* removed stays removed, and while no listener is registered no change event
\* starts a fetch.
C14_UnsubscribeIdempotent ==
    /\ [](\A s \in SubIds : subs[s] = "off" => Unregistered(subs, s) = subs)
    /\ [][\A s \in SubIds : subs[s] = "off" => subs'[s] = "off"]_vars
    /\ [][(\A s \in SubIds : subs[s] # "on") => fetches' = fetches]_vars

\* C14 witness: a subscription that received a change event has been ended,
\* and no listener is registered.
C14_Witness ==
    /\ \E s \in SubIds : subs[s] = "off"
    /\ \A s \in SubIds : subs[s] # "on"
    /\ \E k \in 1..Len(fetches) : fetches[k].silent

\* C19: when beads.getAllWithDependencies fails, the promise of
\* fetchIssuesWithDeps resolves (the callback chained on it runs), error and
\* issuesWithDeps are unchanged and isLoadingBatches is false.
C19_DepsFailureSwallowed ==
    [][\A k \in 1..Len(depFetches) :
          DepsFails(k) =>
              /\ error' = error
              /\ issuesWithDeps' = issuesWithDeps
              /\ isLoadingBatches' = FALSE
              /\ batches' = ThenBatches(depFetches[k].then, issuesWithDeps, batches)]_vars

\* C19 witness: a non-silent fetchIssuesWithDeps has failed, no error is
\* recorded and the loading flag of the batches is false.
C19_Witness ==
    /\ \E k \in 1..Len(depFetches) :
          depFetches[k].phase = "failed" /\ ~depFetches[k].silent
    /\ ~isLoadingBatches
    /\ error = Null

----------------------------------------------------------------------------
(* Pending edits and the loading flag *)

\* id is pending: a call of updateIssueStatus for it has applied its optimistic
\* mutation and has neither been confirmed nor rolled back
Pending(id) == \E k \in 1..Len(updates) : updates[k].id = id /\ Awaiting(k)

\* a non-silent fetchIssues is awaiting beads.list
LoudFetchInFlight == \E k \in 1..Len(fetches) : ~fetches[k].silent /\ InFlight(k)

\* C17: a call of updateIssueStatus is pending from its optimistic mutation; a
\* call whose beads.update has resolved is no longer pending, a call whose
\* beads.update has rejected is eventually rejected and no longer pending, and
\* a call that stopped being pending never becomes pending again.
C17_PendingEnds ==
    /\ [][CallsUpdate => (Awaiting(Len(updates)))']_vars
    /\ [][\A k \in 1..Len(updates) : ~Awaiting(k) => ~(Awaiting(k))']_vars
    /\ \A k \in 1..MaxOps :
          (k \in 1..Len(updates) /\ updates[k].phase = "failed")
              ~> (k \in 1..Len(updates) /\ updates[k].phase = "rejected")

\* C17 witness: a call for an id has been rejected after beads.update failed,
\* and the id is not pending.
C17_Witness ==
    \E k \in 1..Len(updates) :
        /\ updates[k].phase = "rejected"
        /\ ~Pending(updates[k].id)

\* C18: when beads.update fails for a call made while id was not in the list,
\* the step that handles the failure has the effect of a call of fetchIssues
\* with silent = false, and the call is rejected.
C18_RefetchWithoutSnapshot ==
    [][\A k \in 1..Len(updates) :
          (SettlesFailed(k) /\ updates[k].previousStatus = Undefined) =>
              /\ updates'[k].phase = "rejected"
              /\ fetchIssuesSync(FALSE, activeProjectId, projects)]_vars

\* C18 witness: a call made without a snapshot has been rejected, and the
\* non-silent fetch it started is awaiting beads.list with isLoading true.
C18_Witness ==
    /\ \E k \in 1..Len(updates) :
          updates[k].phase = "rejected" /\ updates[k].previousStatus = Undefined
    /\ \E f \in 1..Len(fetches) : ~fetches[f].silent /\ fetches[f].phase = "sent"
    /\ isLoading

\* C20: while a non-silent fetchIssues is awaiting beads.list, isLoading is true.
C20_LoadingUntilSettled == LoudFetchInFlight => isLoading

----------------------------------------------------------------------------
(* The debounced senders *)

\* the design document's targets for the two debounce stages, in ms
TargetIpcMs == 150
TargetWatchMs == 100

\* a burst of signals of the kind is open: its timer is running
BurstOpen(kind) == IF timeoutId[kind].armed THEN 1 ELSE 0

\* the debounced sender of the kind runs in this step
Runs(kind) == fired'[kind] # fired[kind]

\* a notification of the kind is sent to the renderer in this step
Sends(kind) == sent'[kind] # sent[kind]

\* C15 as claimed: every burst of signals of one kind that has ended has sent
\* exactly one notification to the renderer, and a notification is sent one
\* full window after the last signal of its burst.
C15_OneNotificationPerBurst ==
    /\ [](\A kind \in Kinds : sent[kind] = bursts[kind] - BurstOpen(kind))
    /\ [][\A kind \in Kinds :
             Sends(kind) => now = lastSignal[kind] + IpcDebounceMs]_vars

\* C15 as amended: for every burst of signals of one kind the debounced sender
\* runs exactly once, one full window after the last signal of the burst and
\* never before; that run sends exactly one notification if the main window
\* exists and none otherwise, and no notification is sent without a run.
C15_OneRunPerBurst ==
    /\ [](\A kind \in Kinds : fired[kind] = bursts[kind] - BurstOpen(kind))
    /\ [][\A kind \in Kinds :
             Runs(kind) =>
                 /\ now = lastSignal[kind] + IpcDebounceMs
                 /\ fired'[kind] = fired[kind] + 1
                 /\ sent'[kind] = IF mainWindow THEN sent[kind] + 1
                                                ELSE sent[kind]]_vars
    /\ [][\A kind \in Kinds : Sends(kind) => Runs(kind)]_vars

\* C15 witness: a burst of three beads signals has ended, and one notification
\* was sent to the renderer, a full window after the last of them.
C15_Witness ==
    /\ signals["beads"] = 3
    /\ bursts["beads"] = 1
    /\ ~timeoutId["beads"].armed
    /\ sent["beads"] = 1
    /\ now = lastSignal["beads"] + IpcDebounceMs

\* C16: a notification reaches the renderer 150 ms after the last signal of the
\* watch layer, so that with a watch stage of 100 ms the latency of the two
\* stages is 250 ms.
C16_DeliveryWindow150 ==
    [][\A kind \in Kinds :
          Sends(kind) =>
              /\ now - lastSignal[kind] = TargetIpcMs
              /\ TargetWatchMs + (now - lastSignal[kind]) = 250]_vars

----------------------------------------------------------------------------
(* The selection *)

\* line 238: the value is an issue of type 'epic'
IsEpic(epic) == epic # NoEpic /\ epic.issue_type = "epic"

\* a beads.list({ parent }) call is issued in this step
ChildFetchIssued == Len(childFetches') = Len(childFetches) + 1

\* the child fetch k commits its result in this step
ChildFetchCommits(k) ==
    childFetches[k].phase = "served" /\ childFetches'[k].phase = "done"

----------------------------------------------------------------------------
(* The migration of the discovery database and the startup of the watchers *)

\* migrateDiscoveryDb is called and returns in this step
MigrationRuns == startup = "launched" /\ beadsProjectPath /\ startup' # "launched"

\* the rest of initializeFileWatchers runs in this step
WatchersConfigured == startup = "migrated" /\ startup' = "ready"

\* the database file and its companions that exist at the project root
AtRoot(fs) == {f \in DbFiles : existsSync(fs, f)}

\* file f is moved from the root to .parade/ between fs and after
Moved(fs, after, f) ==
    ~existsSync(after, f) /\ after[Join(ParadeDir, f)] = fs[f]

\* file f is where it was, and so is what .parade/ holds under its name
Stays(fs, after, f) ==
    after[f] = fs[f] /\ after[Join(ParadeDir, f)] = fs[Join(ParadeDir, f)]

\* C23: whenever .parade/discovery.db exists when migrateDiscoveryDb is called,
\* the call leaves every file as it is and returns migrated = false with no
\* error.
C23_ExistingDbUntouched ==
    [][(MigrationRuns /\ existsSync(files, NewDb)) =>
          /\ files' = files
          /\ migrationResult' = NotMigrated]_vars

\* C23 witness: the migration has run over a project that holds a database at
\* both locations: the one in .parade/ is still the one written there and the
\* one at the root is still at the root.
C23_Witness ==
    /\ startup = "migrated"
    /\ migrationResult = NotMigrated
    /\ files[NewDb] = FromUser
    /\ files[LegacyDb] = FromRoot

\* C24 as claimed: whenever migrateDiscoveryDb runs with a database at the root
\* and none in .parade/, after it returns the database and every companion file
\* that was at the root are in .parade/ and none of them is at the root; and
\* after a migration the old and the new database never both exist.
C24_AllFilesMoved ==
    /\ [][(MigrationRuns /\ NeedsMigration(files)) =>
             \A f \in AtRoot(files) : Moved(files, files', f)]_vars
    /\ [][(MigrationRuns /\ migrationResult'.migrated) =>
             ~(existsSync(files', LegacyDb) /\ existsSync(files', NewDb))]_vars

\* C24 as amended: whenever migrateDiscoveryDb runs with a database at the root
\* and none in .parade/ and returns migrated = true, the database and every
\* companion file that was at the root are in .parade/ and none of them is at
\* the root.  If it returns migrated = false it returns an error, every file is
\* either moved or where it was, and a companion file is moved only if the
\* database is.  In both cases the old and the new database do not both exist
\* when it returns.
C24_MigrationMoves ==
    /\ [][(MigrationRuns /\ NeedsMigration(files) /\ migrationResult'.migrated) =>
             \A f \in AtRoot(files) : Moved(files, files', f)]_vars
    /\ [][(MigrationRuns /\ NeedsMigration(files) /\ ~migrationResult'.migrated) =>
             /\ migrationResult'.error # NoError
             /\ \A f \in AtRoot(files) :
                   Moved(files, files', f) \/ Stays(files, files', f)
             /\ \A f \in AtRoot(files) :
                   Moved(files, files', f) => Moved(files, files', LegacyDb)]_vars
    /\ [][(MigrationRuns /\ NeedsMigration(files)) =>
             ~(existsSync(files', LegacyDb) /\ existsSync(files', NewDb))]_vars

\* C24 witness: a database with both companion files has been migrated: the
\* three files written at the root are in .parade/ and the root holds none.
C24_Witness ==
    /\ startup = "migrated"
    /\ migrationResult = Migrated
    /\ \A f \in DbFiles : files[Join(ParadeDir, f)] = FromRoot /\ files[f] = Absent

\* a filesystem call of the migration throws in this step: the migration was
\* due and is not complete
MigrationThrows ==
    /\ MigrationRuns
    /\ NeedsMigration(files)
    /\ files' # ApplyOps(files, MigrationOps(files), Len(MigrationOps(files)))

\* C27: migrateDiscoveryDb never throws: a failure of mkdirSync or renameSync is
\* returned as migrated = false with an error, initializeFileWatchers never
\* ends at the await, and whenever a project path is configured it goes on to
\* set the database path of the services and to watch .beads/.
C27_MigrationNeverThrows ==
    /\ [](startup \in {"launched", "migrated", "ready"})
    /\ [][MigrationThrows =>
             /\ ~migrationResult'.migrated
             /\ migrationResult'.error # NoError
             /\ startup' = "migrated"]_vars
    /\ [][WatchersConfigured => discoveryDbPath' # NoPath /\ beadsWatch']_vars
    /\ (startup = "launched" /\ beadsProjectPath)
           ~> (startup = "ready" /\ discoveryDbPath # NoPath /\ beadsWatch)

\* C27 witness: the migration has failed and the watchers are set up: the
\* services have a database path and .beads/ is watched.
C27_Witness ==
    /\ startup = "ready"
    /\ migrationResult = MigrationFailed
    /\ discoveryDbPath # NoPath
    /\ beadsWatch

\* C28: the path initializeFileWatchers gets from getDiscoveryDbPath is the
\* .parade one whenever that file exists, the root one only when the root file
\* exists and the .parade one does not, and the .parade one when neither
\* exists; after a migration that returned migrated = true the services and the
\* watcher use the .parade path.
C28_PathResolution ==
    /\ [][WatchersConfigured =>
             /\ existsSync(files, NewDb) => discoveryDbPath' = NewDb
             /\ discoveryDbPath' = LegacyDb <=>
                    (existsSync(files, LegacyDb) /\ ~existsSync(files, NewDb))
             /\ (~existsSync(files, LegacyDb) /\ ~existsSync(files, NewDb)) =>
                    discoveryDbPath' = NewDb
             /\ discoveryDbPath' \in {NewDb, LegacyDb}]_vars
    /\ []((startup = "ready" /\ migrationResult.migrated) =>
             discoveryDbPath = NewDb /\ discoveryWatch = NewDb)

\* C28 witness: after a migration the watchers are set up on the .parade path.
C28_Witness ==
    /\ startup = "ready"
    /\ migrationResult = Migrated
    /\ discoveryDbPath = NewDb
    /\ discoveryWatch = NewDb
    /\ files[NewDb] = FromRoot

\* C22: whenever the watchers were set up with no discovery database and the
\* database is then created in .parade/, a discovery watch is eventually
\* registered on it and the discovery-changed sender is called.
C22_CreatedDbGetsWatched ==
    (startup = "ready" /\ beadsProjectPath /\ ~dbAtInit /\ existsSync(files, NewDb))
        ~> (discoveryWatch = NewDb /\ signals["discovery"] > 0)

----------------------------------------------------------------------------
(* The setup status *)

\* checkSetupStatus returns in this step, for a project directory that exists
StatusComputed ==
    /\ setupStatus = NoStatus
    /\ setupStatus' # NoStatus
    /\ beadsProjectPath
    /\ existsSync(files, ProjectDir)

HasYaml == existsSync(files, ProjectYaml)
HasClaude == existsSync(files, ClaudeDir)
HasBeads == existsSync(files, BeadsDir)
HasDb == existsSync(files, NewDb) \/ existsSync(files, LegacyDb)

\* C29 as claimed: the status is 'not-started' exactly when none of
\* project.yaml, .claude/, .beads/ exists, 'scaffolded' exactly when .claude/
\* and .beads/ exist without project.yaml, 'configured' exactly when
\* project.yaml, .claude/ and .beads/ exist without discovery.db, and 'ready'
\* exactly when all four exist.
C29_StatusExactly ==
    [][StatusComputed =>
          /\ setupStatus' = "not-started" <=> (~HasYaml /\ ~HasClaude /\ ~HasBeads)
          /\ setupStatus' = "scaffolded" <=> (HasClaude /\ HasBeads /\ ~HasYaml)
          /\ setupStatus' = "configured" <=>
                 (HasYaml /\ HasClaude /\ HasBeads /\ ~HasDb)
          /\ setupStatus' = "ready" <=>
                 (HasYaml /\ HasClaude /\ HasBeads /\ HasDb)]_vars

\* C29 as amended: the status is 'not-started' exactly when none of
\* project.yaml, .claude/, .beads/ exists, 'ready' exactly when all four exist,
\* 'scaffolded' exactly when project.yaml is missing and at least one of
\* .claude/, .beads/ exists, and 'configured' exactly when project.yaml exists
\* and one of .claude/, .beads/, discovery.db is missing.
C29_StatusWithPartialSetups ==
    [][StatusComputed =>
          /\ setupStatus' = "not-started" <=> (~HasYaml /\ ~HasClaude /\ ~HasBeads)
          /\ setupStatus' = "scaffolded" <=> (~HasYaml /\ (HasClaude \/ HasBeads))
          /\ setupStatus' = "configured" <=>
                 (HasYaml /\ ~(HasClaude /\ HasBeads /\ HasDb))
          /\ setupStatus' = "ready" <=>
                 (HasYaml /\ HasClaude /\ HasBeads /\ HasDb)]_vars

\* C29 witness: a project that holds project.yaml and a discovery database but
\* neither .claude/ nor .beads/ has been given the status 'configured'.
C29_Witness ==
    /\ setupStatus = "configured"
    /\ beadsProjectPath
    /\ HasYaml /\ HasDb /\ ~HasClaude /\ ~HasBeads

----------------------------------------------------------------------------
(* parade-init *)

\* main resolves and the entry point exits with code 0 in this step
MainExitsOk == exit = "not run" /\ exit' = "ok"

\* createProjectScaffold is called and returns in this step
ScaffoldRuns == scaffoldRuns' = scaffoldRuns + 1

\* the directory of a step and everything the model holds beneath it
Under(dir) ==
    {dir} \cup (IF dir = ParadeDir
                THEN {ParadeReadme} \cup {Join(ParadeDir, f) : f \in DbFiles}
                ELSE IF dir = ClaudeDir THEN ClaudeSubdirs
                ELSE IF dir = DesignDir THEN DesignFiles
                ELSE {})

\* C25: when main exits successfully, .parade/, .claude/ with skills/, agents/
\* and templates/, and .beads/ exist in the project directory.
C25_MainCreatesDirectories ==
    [][MainExitsOk =>
          \A dir \in {ParadeDir, ClaudeDir, BeadsDir} \cup ClaudeSubdirs :
              existsSync(files', dir)]_vars

\* C26: when main exits successfully with the bd CLI missing, the installer was
\* invoked: main never reports success with bd missing and no install
\* attempted.
C26_MainInstallsBeads ==
    /\ [][(MainExitsOk /\ ~bdInstalled) => installAttempted']_vars
    /\ [](exit = "ok" => (bdInstalled \/ installAttempted))

\* each directory of a step that is in place is reported as skipped and is
\* left as it is, with everything beneath it
ExistingLeftAlone ==
    \A i \in 1..Len(ScaffoldSteps) :
        existsSync(files, ScaffoldSteps[i]) =>
            /\ results'[i] = "skipped"
            /\ \A path \in Under(ScaffoldSteps[i]) : files'[path] = files[path]

\* the scaffold skips every step and changes nothing
SkipsEverything ==
    /\ \A i \in 1..Len(ScaffoldSteps) : results'[i] = "skipped"
    /\ files' = files

\* C30 as claimed: createProjectScaffold reports every directory that is in
\* place as skipped and leaves it unchanged, and a second run with the same
\* options, right after a first one, skips every directory and changes
\* nothing.
C30_SecondRunSkipsAll ==
    /\ [][ScaffoldRuns => ExistingLeftAlone]_vars
    /\ [][(ScaffoldRuns /\ scaffoldRuns >= 1 /\ createDesign' = createDesign) =>
             SkipsEverything]_vars

\* C30 as amended: createProjectScaffold reports every directory that is in
\* place as skipped and leaves it unchanged; a second run with the same
\* options, right after a first one in which no step failed and .beads/ was
\* created or in place, skips every directory and changes nothing.
C30_SecondRunAfterCleanFirst ==
    /\ [][ScaffoldRuns => ExistingLeftAlone]_vars
    /\ [][(/\ ScaffoldRuns
           /\ scaffoldRuns >= 1
           /\ createDesign' = createDesign
           /\ \A i \in 1..Len(ScaffoldSteps) : results[i] # "error") =>
             SkipsEverything]_vars

\* C30 witness: the scaffold has run twice with .design/ asked for, over a
\* directory that held the user's .parade/README.md: the second run skipped
\* all four directories and the README is still the user's.
C30_Witness ==
    /\ scaffoldRuns = 2
    /\ createDesign
    /\ results = <<"skipped", "skipped", "skipped", "skipped">>
    /\ files[ParadeReadme] = FromUser
    /\ \A path \in ClaudeSubdirs \cup DesignFiles : files[path] = FromInit \/ files[path] = Dir

----------------------------------------------------------------------------
(* The result of the migration *)

\* the call moves discovery.db from the project root to .parade/
DbMoved ==
    /\ existsSync(files, LegacyDb)
    /\ ~existsSync(files', LegacyDb)
    /\ files'[NewDb] = files[LegacyDb]

\* C38: migrateDiscoveryDb returns migrated = true if and only if the call
\* moved discovery.db from the project root to .parade/, and when it returns
\* migrated = false with an error discovery.db is still where it was.
C38_ResultReportsMove ==
    /\ [][MigrationRuns => (migrationResult'.migrated <=> DbMoved)]_vars
    /\ [][(MigrationRuns /\ migrationResult'.error # NoError) =>
             files'[LegacyDb] = files[LegacyDb]]_vars

----------------------------------------------------------------------------
(* The child list and the selection *)

\* no beads.list({ parent }) call awaits its settlement
ChildFetchesSettled ==
    \A k \in 1..Len(childFetches) : childFetches[k].phase \in {"done", "failed"}

\* the child list is the result a fetch for the selected epic has committed
ChildrenOfSelected ==
    /\ IsEpic(selectedEpic)
    /\ \E k \in 1..Len(childFetches) :
          /\ childFetches[k].phase = "done"
          /\ childFetches[k].epicId = selectedEpic.id
          /\ childFetches[k].result = childTasks

\* C35: once no child fetch is in flight the child list is empty or holds
\* the children of the selected epic, and a child fetch whose epic is no
\* longer the selected one when it resolves never stores its children.
C35_ChildrenBelongToSelection ==
    /\ [](ChildFetchesSettled => (childTasks = {} \/ ChildrenOfSelected))
    /\ [][\A k \in 1..Len(childFetches) :
             (ChildFetchCommits(k) /\ childFetches[k].result # {}) =>
                 /\ IsEpic(selectedEpic)
                 /\ selectedEpic.id = childFetches[k].epicId]_vars

----------------------------------------------------------------------------
(* The two debounced senders *)

\* a signal of the kind arrives in this step
Signalled(kind) == signals'[kind] # signals[kind]

\* the step leaves the timer, the runs and the notifications of the kind alone
Untouched(kind) ==
    /\ timeoutId'[kind] = timeoutId[kind]
    /\ fired'[kind] = fired[kind]
    /\ sent'[kind] = sent[kind]
    /\ lastSignal'[kind] = lastSignal[kind]

\* the pending timer of every kind is due one window after the last signal of
\* that kind, and a signal or a run of one kind leaves the other kind alone
TimersIndependent ==
    /\ [](\A kind \in Kinds :
             timeoutId[kind].armed =>
                 /\ timeoutId[kind].at = lastSignal[kind] + IpcDebounceMs
                 /\ timeoutId[kind].at >= now)
    /\ [][\A kind \in Kinds :
             (Signalled(kind) \/ Runs(kind)) =>
                 \A other \in Kinds \ {kind} : Untouched(other)]_vars

\* C37 as claimed: the timers of the two kinds are independent, a burst of
\* one kind neither delays, suppresses nor triggers the notification of the
\* other, and each kind gets its own notification one window after its own
\* last signal.
C37_IndependentNotifications ==
    /\ TimersIndependent
    /\ [][\A kind \in Kinds :
             Runs(kind) =>
                 /\ now = lastSignal[kind] + IpcDebounceMs
                 /\ sent'[kind] = sent[kind] + 1]_vars

\* C37 as amended: the timers of the two kinds are independent, a burst of
\* one kind neither delays, suppresses nor triggers the run of the other
\* kind's sender, and the sender of each kind runs one window after its own
\* last signal; the run sends that kind's notification if the main window
\* exists and nothing otherwise.
C37_IndependentSenders ==
    /\ TimersIndependent
    /\ [][\A kind \in Kinds :
             Runs(kind) =>
                 /\ now = lastSignal[kind] + IpcDebounceMs
                 /\ sent'[kind] = SentAfter(sent[kind], mainWindow)]_vars

\* C37 witness: the one beads signal was notified a window after it arrived,
\* in the middle of a burst of discovery signals that is still going on.
C37_Witness ==
    /\ signals["beads"] = 1
    /\ sent["beads"] = 1
    /\ now = lastSignal["beads"] + IpcDebounceMs
    /\ signals["discovery"] >= 3
    /\ lastSignal["discovery"] > lastSignal["beads"]
    /\ timeoutId["discovery"].armed
    /\ sent["discovery"] = 0

----------------------------------------------------------------------------
(* The result of the scaffold *)

\* the result the scaffold gave for the i-th step agrees with what the step
\* found and left on disk: a step is skipped only over a directory that is in
\* place (or, for .design/, if it was not asked for), and otherwise it ran
ResultOfStep(i) ==
    LET dir == ScaffoldSteps[i]
    IN  /\ results'[i] \in {"created", "skipped", "error"}
        /\ results'[i] = "skipped" <=>
               \/ existsSync(files, dir)
               \/ dir = DesignDir /\ ~createDesign'
        /\ results'[i] = "created" => existsSync(files', dir)

\* C31: createProjectScaffold runs the four steps .parade, .claude, .beads,
\* .design in order and returns one result for each whatever the earlier
\* steps did; its success flag is false exactly when the .parade, the .claude
\* or the .design step failed, never because of the .beads step alone; and
\* scaffoldProject throws exactly when the flag is false.
C31_ScaffoldResult ==
    [][ScaffoldRuns =>
          /\ Len(results') = Len(ScaffoldSteps)
          /\ \A i \in 1..Len(ScaffoldSteps) : ResultOfStep(i)
          /\ ~success' <=> "error" \in {results'[1], results'[2], results'[4]}
          /\ thrown' <=> ~success']_vars

\* C31 witness: the .parade step failed and the later steps ran all the same,
\* .claude/ and .design/ were created, bd init failed; the flag is false and
\* scaffoldProject threw.
C31_Witness ==
    /\ results = <<"error", "created", "error", "created">>
    /\ existsSync(files, ClaudeDir)
    /\ existsSync(files, DesignDir)
    /\ ~success
    /\ thrown

----------------------------------------------------------------------------
(* The collapsed batches and their copy in localStorage *)

\* the Set with the membership of the batch flipped and no other member changed
Flipped(members, batchNumber) ==
    IF batchNumber \in members THEN members \ {batchNumber}
    ELSE members \cup {batchNumber}

\* the Set that loadCollapsedBatches would read from what is stored
Persisted(stored) == Members(Loaded(stored, <<>>))

\* toggling a batch of the Set twice restores its members, and saving the Set
\* and loading it back yields the same members
RestoredByTwoToggles ==
    /\ \A n \in BatchNumbers :
          Members(Toggled(Toggled(collapsedBatches, n), n)) = Members(collapsedBatches)
    /\ Members(Loaded(Saved(localStorage, collapsedBatches, TRUE), <<>>))
           = Members(collapsedBatches)

\* C32 as claimed: toggleBatchCollapse(n) flips the membership of n in
\* collapsedBatches and changes no other member, so that toggling twice
\* restores the set; after every toggle the persisted value equals the set in
\* memory; and loadCollapsedBatches after saveCollapsedBatches yields the
\* same set.
C32_PersistedAfterEveryToggle ==
    /\ []RestoredByTwoToggles
    /\ [][\A n \in BatchNumbers :
             toggleBatchCollapse(n) =>
                 /\ Members(collapsedBatches') = Flipped(Members(collapsedBatches), n)
                 /\ localStorage'.kind = "array"
                 /\ Persisted(localStorage') = Members(collapsedBatches')]_vars
    /\ [][saveCollapsedBatches =>
             Members(Loaded(localStorage', <<>>)) = Members(collapsedBatches)]_vars

\* C32 as amended: toggleBatchCollapse(n) flips the membership of n and
\* changes no other member, so that toggling twice restores the set; after a
\* toggle or a save the persisted value equals the set in memory unless
\* localStorage.setItem threw, and then what was stored is unchanged; a save
\* that stored followed by a load yields the same set, and a load replaces
\* the set only if an array is stored.
C32_PersistedUnlessSetItemThrows ==
    /\ []RestoredByTwoToggles
    /\ [][\A n \in BatchNumbers :
             toggleBatchCollapse(n) =>
                 /\ Members(collapsedBatches') = Flipped(Members(collapsedBatches), n)
                 /\ \/ /\ localStorage'.kind = "array"
                       /\ Persisted(localStorage') = Members(collapsedBatches')
                    \/ localStorage' = localStorage]_vars
    /\ [][saveCollapsedBatches =>
             \/ Members(Loaded(localStorage', <<>>)) = Members(collapsedBatches)
             \/ localStorage' = localStorage]_vars
    /\ [][loadCollapsedBatches =>
             Members(collapsedBatches') =
                 IF localStorage.kind = "array" THEN Persisted(localStorage)
                 ELSE Members(collapsedBatches)]_vars

\* C32 witness: batch 1 was collapsed, then batch 2, then batch 1 was toggled
\* twice; the set is {1, 2} again and the stored array holds the two numbers.
C32_Witness ==
    /\ collapsedBatches = <<2, 1>>
    /\ localStorage = JSONstringify(<<2, 1>>)
    /\ Persisted(localStorage) = {1, 2}

----------------------------------------------------------------------------
(* The rollback of a failed status update *)

\* the handler of call k rolls the list back in this step: the call had
\* found its issue in the list and saved the status
RollsBack(k) == SettlesFailed(k) /\ updates[k].previousStatus # Undefined

----------------------------------------------------------------------------
(* The switch of the active project *)

\* exactly one project of the list has isActive true, and it is projectId
OnlyActive(projs, projectId) ==
    /\ HasProject(projs, projectId)
    /\ \A k \in 1..Len(projs) : projs[k].isActive <=> projs[k].id = projectId

\* C33: setActiveProject(p) with p not in the project list changes no state
\* of the store and makes no external call; with p in the list and both
\* settings writes succeeding, when the call has stored the project list
\* activeProjectId is p and exactly one project has isActive true, namely p.
C33_SwitchActivates ==
    /\ [][\A p \in ProjectIds :
             (setActiveProject(p) /\ ~HasProject(projects, p)) =>
                 UNCHANGED <<storeVars, fetches, updates, load, switch, ext,
                             settingsProjects, syncVars>>]_vars
    /\ [][setActiveProjectFetch =>
             /\ activeProjectId' = switch.projectId
             /\ OnlyActive(projects', switch.projectId)]_vars

----------------------------------------------------------------------------
(* The issue list and the active project *)

\* no beads.list call of fetchIssues awaits its settlement
FetchesSettled == \A k \in 1..Len(fetches) : ~InFlight(k)

\* C34: once no fetch is in flight the issue list belongs to the active
\* project: a fetch dispatched before the project was switched or cleared
\* never commits after it, so that the list is empty whenever no project is
\* active.
C34_ListOfActiveProject ==
    /\ [][\A k \in 1..Len(fetches) : Commits(k) => activeProjectId # Null]_vars
    /\ []((FetchesSettled /\ activeProjectId = Null) => issues = EmptyList)

====
